---- MODULE Spec2Model ----
(***************************************************************************)
(* Model of the Streamkap transform kit: the example OrderTransformer, the *)
(* template transform classes, the platform functions that                 *)
(* build-multiple.js emits, and the generator run itself.                  *)
(*                                                                         *)
(* JavaScript values are tagged records: k is the type tag, v the payload  *)
(* of a primitive, f the key -> value map of an object.  Strings are       *)
(* sequences of one-character strings so that includes(), toLowerCase()    *)
(* and replace() are computed on the characters.                           *)
(***************************************************************************)
EXTENDS Integers, Sequences, FiniteSets, TLC

\* A call of a transform on one record.
\* caught is whether the catch block of the called operation ran.
VARIABLES valueObject, keyObject, topic, timestamp, called, result, caught

\* A run of the generator: the command line, the file system (the template
\* entry point, the output directory now and at the start, main.js), the
\* position in buildTransforms and its local variables, the clock, what
\* failed, the exit code once the process has ended, and what console.error
\* has written.
VARIABLES argv, srcTemplatesIndex, treeAtStart, tree, mainJs, mainCode, pc,
          transformsToBuild, useTemplateStructure, idx, fidx, clock, failed,
          exitCode, errorLog

tvars == <<valueObject, keyObject, topic, timestamp, called, result, caught>>
bvars == <<argv, srcTemplatesIndex, treeAtStart, tree, mainJs, mainCode, pc,
           transformsToBuild, useTemplateStructure, idx, fidx, clock, failed,
           exitCode, errorLog>>
\* A record copied from the Topics page and handed to JSONRecordHelper:
\* the outcome of validateRecordStructure(record), the text JSON.stringify
\* makes of it, the outcome of loadJSONRecord on that text, and the
\* outcome of generateRecordSequence(jsonRecord, sequenceCount).
VARIABLES jsonRecord, valid, json, loaded, sequenceCount, sequence
rvars == <<jsonRecord, valid, json, loaded, sequenceCount, sequence>>

\* A run of the selective test runner (test-selective.js): its arguments,
\* what parseTestArgs made of them, the folders of the transforms
\* directory, the transforms to test, the log of the subprocesses started
\* and ended, the position of main, and the exit code (<< >> while
\* running).
VARIABLES testArgs, testAll, shouldBuild, testTypes, transformsDir, transformsToTest,
          execLog, tpc, testExit
uvars == <<testArgs, testAll, shouldBuild, testTypes, transformsDir, transformsToTest,
           execLog, tpc, testExit>>

\* A call of CommonTransform.enrichRecord: its argument, the position of
\* the call, the number of simulated API calls started, the pending timers,
\* the promise of simulateApiCall, the promise of enrichRecord, how often
\* that promise was settled, and whether the timeout callback has run.
VARIABLES enrichArg, epc, apiCalls, timers, apiPromise, enrichPromise,
          settlements, timeoutFired
evars == <<enrichArg, epc, apiCalls, timers, apiPromise, enrichPromise,
           settlements, timeoutFired>>

vars == <<tvars, bvars, rvars, uvars, evars>>

(***************************************************************************)
(* Bounds of the model.                                                    *)
(***************************************************************************)
MaxClock == 1
MaxUuid == 2

Clock == 0..MaxClock
Uuids == 1..MaxUuid

(***************************************************************************)
(* JavaScript values.                                                      *)
(***************************************************************************)
Undefined == [k |-> "undefined"]
Null == [k |-> "null"]
Absent == [k |-> "absent"]
Thrown == [k |-> "throw"]
NotCalled == [k |-> "none"]
Str(s) == [k |-> "string", v |-> s]
Num(n) == [k |-> "number", v |-> n]
Bool(b) == [k |-> "boolean", v |-> b]
Obj(fields) == [k |-> "object", f |-> fields]

\* An object literal: the keys of r whose value is not Absent.
MkObj(r) == Obj([key \in {x \in DOMAIN r : r[x].k # "absent"} |-> r[key]])

IsNullish(x) == x.k \in {"undefined", "null"}

Truthy(x) ==
    CASE x.k = "undefined" -> FALSE
      [] x.k = "null" -> FALSE
      [] x.k = "string" -> Len(x.v) > 0
      [] x.k = "number" -> ("v" \in DOMAIN x => x.v # 0)
      [] x.k = "boolean" -> x.v
      [] OTHER -> TRUE

\* x.key for a non-nullish x (the caller handles the TypeError of a nullish x).
Prop(x, key) ==
    IF x.k = "object" /\ key \in DOMAIN x.f THEN x.f[key] ELSE Undefined

HasKey(x, key) == x.k = "object" /\ key \in DOMAIN x.f

\* {...a, ...b}
Spread(a, b) ==
    [key \in (DOMAIN a) \cup (DOMAIN b) |-> IF key \in DOMAIN b THEN b[key] ELSE a[key]]

\* delete o.key
Delete(fields, key) == [x \in (DOMAIN fields) \ {key} |-> fields[x]]

(***************************************************************************)
(* Strings.                                                                *)
(***************************************************************************)
UpperCase == <<"A","B","C","D","E","F","G","H","I","J","K","L","M",
               "N","O","P","Q","R","S","T","U","V","W","X","Y","Z">>
LowerCase == <<"a","b","c","d","e","f","g","h","i","j","k","l","m",
               "n","o","p","q","r","s","t","u","v","w","x","y","z">>

toLowerCaseChar(c) ==
    IF \E i \in 1..Len(UpperCase) : UpperCase[i] = c
    THEN LowerCase[CHOOSE i \in 1..Len(UpperCase) : UpperCase[i] = c]
    ELSE c

toLowerCase(s) == [i \in 1..Len(s) |-> toLowerCaseChar(s[i])]

includes(s, p) ==
    \E i \in 0..(Len(s) - Len(p)) : SubSeq(s, i + 1, i + Len(p)) = p

s_test == <<"t","e","s","t">>
s_mock == <<"m","o","c","k">>
s_dummy == <<"d","u","m","m","y">>
s_OrderType1 == <<"O","r","d","e","r","T","y","p","e","1">>
s_OrderType2 == <<"O","r","d","e","r","T","y","p","e","2">>
s_version == <<"0",".","1",".","4">>

(***************************************************************************)
(* lodash helpers used by the transformer.                                 *)
(***************************************************************************)
\* _.omitBy(obj, _.isUndefined): a shallow copy without the undefined values.
omitByUndefined(x) ==
    IF x.k = "object"
    THEN [key \in {y \in DOMAIN x.f : x.f[y].k # "undefined"} |-> x.f[key]]
    ELSE << >>

\* _.has(obj, 'customer.name') on the cleaned copy.
hasCustomerName(cleaned) ==
    /\ "customer" \in DOMAIN cleaned
    /\ HasKey(cleaned["customer"], "name")

\* _.isEmpty(value)
isEmpty(x) ==
    CASE x.k = "string" -> Len(x.v) = 0
      [] x.k = "object" -> DOMAIN x.f = {}
      [] OTHER -> TRUE

(***************************************************************************)
(* OrderTransformer.                                                       *)
(***************************************************************************)
\* moment().toISOString() keeps the milliseconds; format('YYYY-MM-DD HH:mm:ss')
\* keeps whole seconds only.
toISOString(now) == [k |-> "string", iso |-> now]
formatSeconds(now) == [k |-> "string", sec |-> now \div 1000]
uuidv4(u) == [k |-> "string", uuid |-> u]

\* Mutant: an empty name counts as a name.
hasValidCustomerOf_emptyNameAllowed(inputOrder) ==
    hasCustomerName(omitByUndefined(inputOrder))

hasValidCustomerOf(inputOrder) ==
    LET cleanedOrder == omitByUndefined(inputOrder)
    IN  hasCustomerName(cleanedOrder) /\ ~isEmpty(cleanedOrder["customer"].f["name"])

transformOrderType1(inputOrder, now, u) ==
    LET cleanedOrder == omitByUndefined(inputOrder)
    IN  Obj([version |-> Str(s_version),
             _id |-> Prop(inputOrder, "_id"),
             order_number |-> Prop(inputOrder, "order_number"),
             location_id |-> Prop(inputOrder, "location_id"),
             order_type |-> Prop(inputOrder, "order_type"),
             channel |-> Prop(inputOrder, "channel"),
             customer |-> Prop(inputOrder, "customer"),
             organization_id |-> Prop(inputOrder, "organization_id"),
             processed_at |-> toISOString(now),
             processed_time |-> formatSeconds(now),
             processing_id |-> uuidv4(u),
             has_valid_customer |-> Bool(hasValidCustomerOf(inputOrder)),
             field_count |-> Num(Cardinality(DOMAIN cleanedOrder))])

\* Mutant: shape B takes organization_id from the top level, as shape A does.
transformOrderType2_topLevelOrg(inputOrder, now, u) ==
    IF IsNullish(Prop(inputOrder, "customer"))
    THEN Thrown
    ELSE Obj([version |-> Str(s_version),
              _id |-> Prop(inputOrder, "order_id"),
              order_number |-> Prop(inputOrder, "order_number"),
              location_id |-> Prop(inputOrder, "location_id"),
              order_type |-> Prop(inputOrder, "order_type"),
              channel |-> Prop(inputOrder, "channel"),
              customer |-> Prop(inputOrder, "customer"),
              organization_id |-> Prop(inputOrder, "organization_id"),
              processed_at |-> toISOString(now),
              processed_time |-> formatSeconds(now),
              processing_id |-> uuidv4(u),
              has_valid_customer |-> Bool(hasValidCustomerOf(inputOrder)),
              field_count |-> Num(Cardinality(DOMAIN omitByUndefined(inputOrder)))])

transformOrderType2(inputOrder, now, u) ==
    LET cleanedOrder == omitByUndefined(inputOrder)
    IN  IF IsNullish(Prop(inputOrder, "customer"))
        THEN Thrown    \* inputOrder.customer.organization_id: TypeError
        ELSE Obj([version |-> Str(s_version),
                  _id |-> Prop(inputOrder, "order_id"),
                  order_number |-> Prop(inputOrder, "order_number"),
                  location_id |-> Prop(inputOrder, "location_id"),
                  order_type |-> Prop(inputOrder, "order_type"),
                  channel |-> Prop(inputOrder, "channel"),
                  customer |-> Prop(inputOrder, "customer"),
                  organization_id |-> Prop(Prop(inputOrder, "customer"), "organization_id"),
                  processed_at |-> toISOString(now),
                  processed_time |-> formatSeconds(now),
                  processing_id |-> uuidv4(u),
                  has_valid_customer |-> Bool(hasValidCustomerOf(inputOrder)),
                  field_count |-> Num(Cardinality(DOMAIN cleanedOrder))])

\* Mutant: every record is taken for an OrderType1 record.
isOrderType1_always(inputOrder) == TRUE

\* inputOrder.order_type == 'OrderType1'
isOrderType1(inputOrder) ==
    LET t == Prop(inputOrder, "order_type")
    IN  t.k = "string" /\ t.v = s_OrderType1

\* Mutant: the version field carries the time of the call.
OrderTransformer_transform_versionStamped(inputOrder, now, u) ==
    IF IsNullish(inputOrder)
    THEN Thrown
    ELSE LET merged == IF isOrderType1(inputOrder)
                       THEN transformOrderType1(inputOrder, now, u)
                       ELSE transformOrderType2(inputOrder, now, u)
         IN  IF merged.k # "object" THEN merged
             ELSE Obj([key \in DOMAIN merged.f |->
                         IF key = "version" THEN toISOString(now) ELSE merged.f[key]])

OrderTransformer_transform(inputOrder, now, u) ==
    IF IsNullish(inputOrder)
    THEN Thrown        \* inputOrder.order_type: TypeError
    ELSE IF isOrderType1(inputOrder)
         THEN transformOrderType1(inputOrder, now, u)
         ELSE transformOrderType2(inputOrder, now, u)

(***************************************************************************)
(* Platform functions emitted in example mode (build-multiple.js).         *)
(***************************************************************************)
\* Mutant: no identifier counts as a test identifier.
idIncludesTest_never(x) == FALSE

\* x.includes('test') for a truthy x: a TypeError when x is no string.
idIncludesTest(x) == x.k = "string" /\ includes(x.v, s_test)

\* Mutant: the customer's name is not looked at.
streamkap_transform_map_filter_anyName(v, now, u) ==
    IF ~Truthy(v) \/ ~Truthy(Prop(v, "customer"))
    THEN Null
    ELSE IF Truthy(Prop(v, "_id")) /\ idIncludesTest(Prop(v, "_id"))
         THEN Null
         ELSE OrderTransformer_transform(v, now, u)

streamkap_transform_map_filter(v, now, u) ==
    IF \/ ~Truthy(v)
       \/ ~Truthy(Prop(v, "customer"))
       \/ ~Truthy(Prop(Prop(v, "customer"), "name"))
    THEN Null
    ELSE IF Truthy(Prop(v, "_id")) /\ Prop(v, "_id").k # "string"
         THEN Thrown
         ELSE IF Truthy(Prop(v, "_id")) /\ idIncludesTest(Prop(v, "_id"))
              THEN Null
              ELSE OrderTransformer_transform(v, now, u)

\* What the simulateApiCall of the generated enrich_async file resolves to.
customerEnrichment(now) ==
    [credit_score |-> Num(750),
     loyalty_tier |-> Str(<<"g","o","l","d">>),
     last_order_date |-> Str(<<"2","0","2","4","-","0","8","-","1","5">>),
     enriched_at |-> toISOString(now)]

\* The enrich_async function of example mode: what its promise resolves to
\* (r), whether the catch block made it, and the caller's record after the
\* call (input).  The customer of the transformed order is the customer
\* object of the input, and Object.assign writes into it.
streamkap_transform_enrich_async(v, now, u) ==
    LET transformedOrder == OrderTransformer_transform(v, now, u)
    IN  IF transformedOrder.k = "throw"
        THEN [r |-> v, caught |-> TRUE, input |-> v]
        ELSE LET customer == Prop(transformedOrder, "customer")
             IN  IF Truthy(customer) /\ Truthy(Prop(customer, "_id"))
                 THEN LET assigned == Obj(Spread(customer.f, customerEnrichment(now)))
                      IN  [r |-> Obj(Spread(transformedOrder.f,
                                       [customer |-> assigned,
                                        enrichment_timestamp |-> toISOString(now)])),
                           caught |-> FALSE,
                           input |-> Obj(Spread(v.f, [customer |-> assigned]))]
                 ELSE [r |-> transformedOrder, caught |-> FALSE, input |-> v]

\* Mutant: the nested customer is copied to the top level but not deleted.
streamkap_transform_un_nesting_keepCustomer(v, now, u) ==
    IF ~Truthy(v)
    THEN Null
    ELSE LET baseRecord == OrderTransformer_transform(v, now, u)
         IN  IF baseRecord.k = "throw"
             THEN Thrown
             ELSE LET c == baseRecord.f["customer"]
                  IN  Obj(Spread(baseRecord.f,
                        [customer_id |-> Prop(c, "_id"),
                         customer_name |-> Prop(c, "name"),
                         customer_organization_id |-> Prop(c, "organization_id"),
                         customer_version |-> Prop(c, "version"),
                         flattened_at |-> toISOString(now),
                         original_structure_preserved |-> Bool(FALSE)]))

streamkap_transform_un_nesting(v, now, u) ==
    IF ~Truthy(v)
    THEN Null
    ELSE LET baseRecord == OrderTransformer_transform(v, now, u)
         IN  IF baseRecord.k = "throw"
             THEN Thrown
             ELSE LET c == baseRecord.f["customer"]
                      flat == IF Truthy(c)
                              THEN Delete(Spread(baseRecord.f,
                                       [customer_id |-> Prop(c, "_id"),
                                        customer_name |-> Prop(c, "name"),
                                        customer_organization_id |-> Prop(c, "organization_id"),
                                        customer_version |-> Prop(c, "version")]),
                                     "customer")
                              ELSE baseRecord.f
                  IN  Obj(Spread(flat,
                        [flattened_at |-> toISOString(now),
                         original_structure_preserved |-> Bool(FALSE)]))

(***************************************************************************)
(* JavaScript operators used by the template classes.                      *)
(***************************************************************************)
typeOf(x) == IF x.k = "null" THEN "object" ELSE x.k

\* a || b
Or(a, b) == IF Truthy(a) THEN a ELSE b

DigitChars == <<"0","1","2","3","4","5","6","7","8","9">>

RECURSIVE Digits(_)
Digits(n) ==
    IF n < 10 THEN <<DigitChars[n + 1]>>
    ELSE Digits(n \div 10) \o <<DigitChars[(n % 10) + 1]>>

s_objectObject == <<"[","o","b","j","e","c","t"," ","O","b","j","e","c","t","]">>

\* String(x) for a truthy x
StringOf(x) ==
    CASE x.k = "string" -> x.v
      [] x.k = "number" /\ "v" \in DOMAIN x /\ x.v >= 0 -> Digits(x.v)
      [] x.k = "number" /\ "v" \in DOMAIN x /\ x.v < 0 -> <<"-">> \o Digits(0 - x.v)
      [] OTHER -> s_objectObject

RECURSIVE trimStart(_)
trimStart(s) == IF Len(s) > 0 /\ Head(s) = " " THEN trimStart(Tail(s)) ELSE s

RECURSIVE trimEnd(_)
trimEnd(s) ==
    IF Len(s) > 0 /\ s[Len(s)] = " " THEN trimEnd(SubSeq(s, 1, Len(s) - 1)) ELSE s

trim(s) == trimEnd(trimStart(s))

\* A number is a small integer (v), a large positive integer written as its
\* decimal digits (big), or a reading of Date.now() (datenow).
Ts(digits) == [k |-> "number", big |-> digits]
DateNow(now) == [k |-> "number", datenow |-> now]

isPositiveNumber(t) ==
    /\ t.k = "number"
    /\ ("v" \in DOMAIN t => t.v > 0)

(***************************************************************************)
(* CommonTransform (src/templates/commonTransform.ts).                     *)
(***************************************************************************)
IdKeys == {"id", "_id", "order_id"}

validateRecord_v1(record) ==
    /\ Truthy(record)
    /\ typeOf(record) = "object"
    /\ \E key \in IdKeys :
          Truthy(Prop(record, key)) /\ typeOf(Prop(record, key)) = "string"

\* record.id || record._id || record.order_id
idFieldOf(record) ==
    Or(Or(Prop(record, "id"), Prop(record, "_id")), Prop(record, "order_id"))

shouldKeepRecord_v1(record) ==
    IF ~validateRecord_v1(record)
    THEN FALSE
    ELSE LET idField == idFieldOf(record)
         IN  ~(Truthy(idField) /\ typeOf(idField) = "string" /\ includes(idField.v, s_test))

(***************************************************************************)
(* CommonTransform, the later version with input validation.               *)
(***************************************************************************)
TopicMaxLen == 249
TopicCut == 246

TopicChars ==
    {UpperCase[i] : i \in 1..Len(UpperCase)} \cup {LowerCase[i] : i \in 1..Len(LowerCase)}
      \cup {DigitChars[i] : i \in 1..Len(DigitChars)} \cup {".", "_", "-"}

s_defaultTopic == <<"d","e","f","a","u","l","t","-","t","o","p","i","c">>
s_topic == <<"t","o","p","i","c">>

normalizeTimestamp(t, now) ==
    IF ~isPositiveNumber(t)
    THEN DateNow(now)
    ELSE IF "big" \in DOMAIN t
         THEN IF Len(t.big) <= 10 THEN Ts(t.big \o <<0, 0, 0>>)
              ELSE IF Len(t.big) <= 13 THEN t
              ELSE IF Len(t.big) <= 16 THEN Ts(SubSeq(t.big, 1, Len(t.big) - 3))
              ELSE Ts(SubSeq(t.big, 1, Len(t.big) - 6))
         ELSE IF "v" \in DOMAIN t THEN Num(t.v * 1000)
              ELSE t     \* Date.now() is in milliseconds

sanitizeTopicName(topicName) ==
    IF ~Truthy(topicName) \/ typeOf(topicName) # "string"
    THEN Str(s_defaultTopic)
    ELSE LET replaced == [i \in 1..Len(topicName.v) |->
                            IF topicName.v[i] \in TopicChars THEN topicName.v[i] ELSE "-"]
             dotted == IF Len(replaced) > 0 /\ replaced[1] = "."
                       THEN s_topic \o replaced ELSE replaced
         IN  IF Len(dotted) > TopicMaxLen
             THEN Str(SubSeq(dotted, 1, TopicCut) \o <<".", ".", ".">>)
             ELSE Str(dotted)

\* validateInput(...).valid
validateInput(record, key, topicName, t) ==
    /\ Truthy(record) /\ typeOf(record) = "object"
    /\ isPositiveNumber(t)
    /\ Truthy(topicName) /\ typeOf(topicName) = "string" /\ Len(trim(topicName.v)) > 0

RECURSIVE removeUndefinedValues(_)
removeUndefinedValues(x) ==
    IF x.k # "object"
    THEN x
    ELSE Obj([key \in {y \in DOMAIN x.f : x.f[y].k # "undefined"} |->
                removeUndefinedValues(x.f[key])])

validateRecord(record) ==
    IF ~Truthy(record) \/ typeOf(record) # "object"
    THEN FALSE
    ELSE /\ \E key \in IdKeys :
              /\ Truthy(Prop(record, key))
              /\ typeOf(Prop(record, key)) \in {"string", "number"}
         /\ Cardinality(DOMAIN record.f) > 0

shouldKeepRecord(record) ==
    IF ~validateRecord(record)
    THEN FALSE
    ELSE LET idField == idFieldOf(record)
             idStr == toLowerCase(StringOf(idField))
         IN  ~(Truthy(idField) /\ (\/ includes(idStr, s_test)
                                   \/ includes(idStr, s_mock)
                                   \/ includes(idStr, s_dummy)))

s_transformVersion == <<"1",".","0",".","0">>

transformRecord(inputRecord, t, now, u) ==
    LET cleanedRecord == omitByUndefined(inputRecord)
        field(key) == IF key \in DOMAIN cleanedRecord THEN cleanedRecord[key] ELSE Undefined
        hasValidData == \E key \in IdKeys : Truthy(field(key)) /\ ~isEmpty(field(key))
    IN  Obj(Spread(cleanedRecord,
          [processed_at |-> toISOString(now),
           processed_time |-> formatSeconds(now),
           processing_id |-> uuidv4(u),
           has_valid_data |-> Bool(hasValidData),
           field_count |-> Num(Cardinality(DOMAIN cleanedRecord)),
           normalized_timestamp |-> normalizeTimestamp(Or(t, DateNow(now)), now),
           transform_version |-> Str(s_transformVersion)]))

flattenRecord(record, now) ==
    LET user == Prop(record, "user")
        metadata == Prop(record, "metadata")
        withUser == IF Truthy(user)
                    THEN Delete(Spread(record.f,
                             [user_id |-> Prop(user, "id"),
                              user_name |-> Prop(user, "name"),
                              user_email |-> Prop(user, "email")]), "user")
                    ELSE record.f
        metaKeys == IF metadata.k = "object" THEN DOMAIN metadata.f ELSE {}
        withMeta == IF Truthy(metadata)
                    THEN Delete(Spread(withUser,
                             [key \in {"metadata_" \o y : y \in metaKeys} |->
                                LET src == CHOOSE y \in metaKeys : "metadata_" \o y = key
                                IN  metadata.f[src]]), "metadata")
                    ELSE withUser
    IN  removeUndefinedValues(Obj(Spread(withMeta,
          [flattened_at |-> toISOString(now),
           original_structure_preserved |-> Bool(FALSE),
           flatten_version |-> Str(s_transformVersion)])))

(***************************************************************************)
(* ValueTransform.                                                         *)
(***************************************************************************)
s_value == <<"v","a","l","u","e">>
s_flatten == <<"f","l","a","t","t","e","n">>

ValueTransform_transform(v, key, topicName, t, now, u) ==
    IF ~validateInput(v, key, topicName, t)
    THEN Null
    ELSE IF ~shouldKeepRecord(v)
         THEN Null
         ELSE LET normalizedTimestamp == normalizeTimestamp(t, now)
                  transformedRecord == transformRecord(v, normalizedTimestamp, now, u)
              IN  removeUndefinedValues(Obj(Spread(transformedRecord.f,
                    [source_topic |-> sanitizeTopicName(topicName),
                     source_timestamp |-> normalizedTimestamp,
                     source_key |-> key,
                     transform_type |-> Str(s_value)])))

ValueTransform_transformFlatten(v, key, topicName, t, now) ==
    IF ~validateInput(v, key, topicName, t)
    THEN Null
    ELSE IF ~validateRecord(v)
         THEN Null
         ELSE LET flattenedRecord == flattenRecord(v, now)
              IN  removeUndefinedValues(Obj(Spread(flattenedRecord.f,
                    [source_topic |-> sanitizeTopicName(topicName),
                     source_timestamp |-> normalizeTimestamp(t, now),
                     source_key |-> key,
                     transform_type |-> Str(s_flatten)])))

\* The earlier ValueTransform.transform, over the CommonTransform of
\* src/templates/commonTransform.ts: no input validation, the context is
\* attached as given.
ValueTransform_transform_v1(v, key, topicName, t, now, u) ==
    IF ~shouldKeepRecord_v1(v)
    THEN Null
    ELSE LET cleanedRecord == omitByUndefined(v)
         IN  Obj(Spread(Spread(cleanedRecord,
               [processed_at |-> toISOString(now),
                processed_time |-> formatSeconds(now),
                processing_id |-> uuidv4(u),
                has_valid_data |-> Bool("id" \in DOMAIN cleanedRecord
                                          /\ ~isEmpty(cleanedRecord["id"])),
                field_count |-> Num(Cardinality(DOMAIN cleanedRecord)),
                transform_version |-> Str(s_transformVersion)]),
               [source_topic |-> topicName,
                source_timestamp |-> t,
                source_key |-> key,
                transform_type |-> Str(s_value)]))

(***************************************************************************)
(* Platform functions emitted in template mode (build-multiple.js): the    *)
(* call of the template class inside try/catch.                            *)
(***************************************************************************)
streamkap_transform_map_filter_template(v, key, topicName, t, now, u) ==
    ValueTransform_transform(v, key, topicName, t, now, u)

streamkap_transform_un_nesting_template(v, key, topicName, t, now) ==
    ValueTransform_transformFlatten(v, key, topicName, t, now)

(***************************************************************************)
(* Topic routing: CommonTransform.getRoutingTopics, TopicTransform and the *)
(* topic function emitted in example mode.                                 *)
(***************************************************************************)
\* The string literals of the routing code.
lit ==
    [ express |-> <<"e","x","p","r","e","s","s">>,
      rpos |-> <<"r","p","o","s">>,
      orders_express_processed |-> <<"o","r","d","e","r","s","-","e","x","p","r","e","s","s","-","p","r","o","c","e","s","s","e","d">>,
      orders_rpos_processed |-> <<"o","r","d","e","r","s","-","r","p","o","s","-","p","r","o","c","e","s","s","e","d">>,
      orders_processed |-> <<"o","r","d","e","r","s","-","p","r","o","c","e","s","s","e","d">>,
      orders_high_value |-> <<"o","r","d","e","r","s","-","h","i","g","h","-","v","a","l","u","e">>,
      orders_errors |-> <<"o","r","d","e","r","s","-","e","r","r","o","r","s">>,
      high_priority |-> <<"h","i","g","h","_","p","r","i","o","r","i","t","y">>,
      high_priority_records |-> <<"h","i","g","h","-","p","r","i","o","r","i","t","y","-","r","e","c","o","r","d","s">>,
      standard_records |-> <<"s","t","a","n","d","a","r","d","-","r","e","c","o","r","d","s">>,
      error_records |-> <<"e","r","r","o","r","-","r","e","c","o","r","d","s">>,
      validation_errors |-> <<"v","a","l","i","d","a","t","i","o","n","-","e","r","r","o","r","s">>,
      order |-> <<"o","r","d","e","r">>,
      user |-> <<"u","s","e","r">>,
      payment |-> <<"p","a","y","m","e","n","t">>,
      users_processed |-> <<"u","s","e","r","s","-","p","r","o","c","e","s","s","e","d">>,
      payments_processed |-> <<"p","a","y","m","e","n","t","s","-","p","r","o","c","e","s","s","e","d">>,
      general_processed |-> <<"g","e","n","e","r","a","l","-","p","r","o","c","e","s","s","e","d">>,
      high_value_records |-> <<"h","i","g","h","-","v","a","l","u","e","-","r","e","c","o","r","d","s">>,
      business_hours_records |-> <<"b","u","s","i","n","e","s","s","-","h","o","u","r","s","-","r","e","c","o","r","d","s">>,
      after_hours_records |-> <<"a","f","t","e","r","-","h","o","u","r","s","-","r","e","c","o","r","d","s">>,
      fallback_topic |-> <<"f","a","l","l","b","a","c","k","-","t","o","p","i","c">>,
      transform_errors |-> <<"t","r","a","n","s","f","o","r","m","-","e","r","r","o","r","s">>,
      priority_ |-> <<"p","r","i","o","r","i","t","y","-">>,
      compliance_records |-> <<"c","o","m","p","l","i","a","n","c","e","-","r","e","c","o","r","d","s">>,
      analytics_records |-> <<"a","n","a","l","y","t","i","c","s","-","r","e","c","o","r","d","s">>,
      archive_records |-> <<"a","r","c","h","i","v","e","-","r","e","c","o","r","d","s">>,
      active_records |-> <<"a","c","t","i","v","e","-","r","e","c","o","r","d","s">>,
      main_processed |-> <<"m","a","i","n","-","p","r","o","c","e","s","s","e","d">>,
      vip |-> <<"v","i","p">>,
      vip_processing |-> <<"v","i","p","-","p","r","o","c","e","s","s","i","n","g">>,
      fraud_review |-> <<"f","r","a","u","d","-","r","e","v","i","e","w">>,
      US |-> <<"U","S">>,
      international_compliance |-> <<"i","n","t","e","r","n","a","t","i","o","n","a","l","-","c","o","m","p","l","i","a","n","c","e">>,
      realtime_processing |-> <<"r","e","a","l","t","i","m","e","-","p","r","o","c","e","s","s","i","n","g">>,
      batch_processing |-> <<"b","a","t","c","h","-","p","r","o","c","e","s","s","i","n","g">>,
      login |-> <<"l","o","g","i","n">>,
      purchase |-> <<"p","u","r","c","h","a","s","e">>,
      signup |-> <<"s","i","g","n","u","p">> ]

\* A JavaScript array.
Arr(items) == [k |-> "array", v |-> items]

\* a > n for a small non-negative integer n
greaterThan(a, n) == a.k = "number" /\ "v" \in DOMAIN a /\ a.v > n

\* topics.length > 1 ? topics : topics[0]
oneOrMany(topics) ==
    IF Len(topics) > 1 THEN Arr(topics)
    ELSE IF Len(topics) = 1 THEN topics[1] ELSE Undefined

\* Array.from(new Set(topics))
RECURSIVE uniqueOf(_)
uniqueOf(topics) ==
    IF topics = << >> THEN << >>
    ELSE LET front == uniqueOf(SubSeq(topics, 1, Len(topics) - 1))
             last == topics[Len(topics)]
         IN  IF \E i \in DOMAIN front : front[i] = last THEN front
             ELSE Append(front, last)

\* _streamkap_transform_topic as generated in example mode.
streamkap_transform_topic(v) ==
    LET channel == IF Truthy(v) THEN Prop(v, "channel") ELSE Undefined
        primary == IF Truthy(v) /\ channel = Str(lit.express)
                   THEN <<Str(lit.orders_express_processed)>>
                   ELSE IF Truthy(v) /\ channel = Str(lit.rpos)
                   THEN <<Str(lit.orders_rpos_processed)>>
                   ELSE <<Str(lit.orders_processed)>>
        highValue == IF Truthy(v) /\ greaterThan(Prop(v, "order_number"), 50000)
                     THEN <<Str(lit.orders_high_value)>> ELSE << >>
        errors == IF Truthy(v) /\ ~Truthy(Prop(v, "customer"))
                  THEN <<Str(lit.orders_errors)>> ELSE << >>
    IN  oneOrMany(primary \o highValue \o errors)

\* CommonTransform.getRoutingTopics (src/templates/commonTransform.ts)
getRoutingTopics_v1(record, originalTopic) ==
    IF IsNullish(record)
    THEN Thrown        \* record.type: TypeError
    ELSE oneOrMany(
           (IF Prop(record, "type") = Str(lit.high_priority)
            THEN <<Str(lit.high_priority_records)>>
            ELSE <<Str(lit.standard_records)>>)
           \o (IF ~validateRecord_v1(record) THEN <<Str(lit.error_records)>> ELSE << >>))

validateTopicName(topicName) ==
    /\ Truthy(topicName)
    /\ typeOf(topicName) = "string"
    /\ \A i \in 1..Len(topicName.v) : topicName.v[i] \in TopicChars
    /\ Len(topicName.v) <= TopicMaxLen

\* CommonTransform.getRoutingTopics, the later version.
getRoutingTopics(record, originalTopic) ==
    LET sanitizedOriginalTopic == sanitizeTopicName(originalTopic)
        topics ==
           (IF Prop(record, "type") = Str(lit.high_priority)
            THEN <<sanitizeTopicName(Str(lit.high_priority_records))>>
            ELSE <<sanitizeTopicName(Str(lit.standard_records))>>)
           \o (IF ~validateRecord(record)
               THEN <<sanitizeTopicName(Str(lit.error_records))>> ELSE << >>)
        validTopics == SelectSeq(topics, validateTopicName)
    IN  IF Len(validTopics) > 1 THEN Arr(validTopics)
        ELSE Or(IF Len(validTopics) = 1 THEN validTopics[1] ELSE Undefined,
                sanitizedOriginalTopic)

\* TopicTransform.transform; businessHours is whether the local hour of the
\* normalized timestamp lies in 9..17.
TopicTransform_transform(v, key, topicName, t, businessHours) ==
    IF ~validateInput(v, key, topicName, t)
    THEN sanitizeTopicName(Str(lit.validation_errors))
    ELSE LET routingTopics == getRoutingTopics(v, topicName)
             baseTopics == IF routingTopics.k = "array" THEN routingTopics.v
                           ELSE <<routingTopics>>
             type == Prop(v, "type")
             routedTopic == CASE type = Str(lit.order) -> lit.orders_processed
                              [] type = Str(lit.user) -> lit.users_processed
                              [] type = Str(lit.payment) -> lit.payments_processed
                              [] OTHER -> lit.general_processed
             byType == IF Truthy(type) /\ typeOf(type) = "string"
                       THEN <<sanitizeTopicName(Str(routedTopic))>> ELSE << >>
             amount == Prop(v, "amount")
             highValue == IF Truthy(amount) /\ greaterThan(amount, 1000)
                          THEN <<sanitizeTopicName(Str(lit.high_value_records))>>
                          ELSE << >>
             errors == IF ~validateRecord(v)
                       THEN <<sanitizeTopicName(Str(lit.error_records))>> ELSE << >>
             byHour == IF businessHours
                       THEN <<sanitizeTopicName(Str(lit.business_hours_records))>>
                       ELSE <<sanitizeTopicName(Str(lit.after_hours_records))>>
             uniqueTopics == SelectSeq(
                 uniqueOf(baseTopics \o byType \o highValue \o errors \o byHour),
                 validateTopicName)
         IN  IF Len(uniqueTopics) = 0
             THEN sanitizeTopicName(Str(lit.fallback_topic))
             ELSE oneOrMany(uniqueTopics)

shouldRouteToAnalytics(v) ==
    IF ~Truthy(v) THEN FALSE
    ELSE \/ Truthy(Prop(v, "amount")) /\ greaterThan(Prop(v, "amount"), 500)
         \/ /\ Truthy(Prop(v, "event_type"))
            /\ Prop(v, "event_type") \in {Str(lit.login), Str(lit.purchase), Str(lit.signup)}
         \/ Truthy(Prop(v, "experiment_id"))

\* TopicTransform.complexRoute; old is whether Date.now() - timestamp exceeds
\* thirty days.
TopicTransform_complexRoute(v, key, topicName, t, old) ==
    LET typeStatus == IF Truthy(v) /\ Truthy(Prop(v, "type")) /\ Truthy(Prop(v, "status"))
                      THEN <<Str(StringOf(Prop(v, "type")) \o <<"-">>
                                   \o StringOf(Prop(v, "status")))>>
                      ELSE << >>
        priority == IF Truthy(v) /\ Truthy(Prop(v, "priority"))
                    THEN <<Str(lit.priority_ \o StringOf(Prop(v, "priority")))>>
                    ELSE << >>
        compliance == IF Truthy(v) /\ Truthy(Prop(v, "compliance_required"))
                      THEN <<Str(lit.compliance_records)>> ELSE << >>
        analytics == IF shouldRouteToAnalytics(v)
                     THEN <<Str(lit.analytics_records)>> ELSE << >>
        age == IF Truthy(t) /\ t.k = "number" /\ old
               THEN <<Str(lit.archive_records)>> ELSE <<Str(lit.active_records)>>
    IN  oneOrMany(uniqueOf(typeStatus \o priority \o compliance \o analytics \o age))

\* TopicTransform.conditionalRoute; recent is whether Date.now() - timestamp
\* is below five seconds.
TopicTransform_conditionalRoute(v, key, topicName, t, recent) ==
    LET vip == IF Truthy(v) /\ Prop(v, "customer_type") = Str(lit.vip)
               THEN <<Str(lit.vip_processing)>> ELSE << >>
        \* fraud_score > 0.8: of the integers, those above 0
        fraud == IF Truthy(v) /\ greaterThan(Prop(v, "fraud_score"), 0)
                 THEN <<Str(lit.fraud_review)>> ELSE << >>
        international ==
               IF Truthy(v) /\ Truthy(Prop(v, "country")) /\ Prop(v, "country") # Str(lit.US)
               THEN <<Str(lit.international_compliance)>> ELSE << >>
        isRealTime == t.k = "number" /\ recent
        timing == IF isRealTime THEN <<Str(lit.realtime_processing)>>
                  ELSE <<Str(lit.batch_processing)>>
    IN  oneOrMany(<<Str(lit.main_processed)>> \o vip \o fraud \o international \o timing)

\* _streamkap_transform_topic as generated in template mode: the call of
\* TopicTransform.transform.
streamkap_transform_topic_template(v, key, topicName, t, businessHours) ==
    TopicTransform_transform(v, key, topicName, t, businessHours)

(***************************************************************************)
(* KeyTransform, ValueSchemaTransform, KeySchemaTransform and              *)
(* ValueTransform.transformAsync.  An operation with a try/catch returns   *)
(* [r |-> its result, caught |-> whether the catch block ran].             *)
(***************************************************************************)
\* The string literals of these classes.
text ==
    [ API_call_timeout_after_5_seconds |-> <<"A","P","I"," ","c","a","l","l"," ","t","i","m","e","o","u","t"," ","a","f","t","e","r"," ","5"," ","s","e","c","o","n","d","s">>,
      No_valid_ID_found_for_enrichment |-> <<"N","o"," ","v","a","l","i","d"," ","I","D"," ","f","o","u","n","d"," ","f","o","r"," ","e","n","r","i","c","h","m","e","n","t">>,
      error |-> <<"e","r","r","o","r","-">>,
      invalid_value |-> <<"i","n","v","a","l","i","d","-","v","a","l","u","e","-">>,
      invalid_topic |-> <<"i","n","v","a","l","i","d","-","t","o","p","i","c","-">>,
      empty_key |-> <<"e","m","p","t","y","-","k","e","y">>,
      null |-> <<"n","u","l","l">>,
      undefined |-> <<"u","n","d","e","f","i","n","e","d">>,
      true |-> <<"t","r","u","e">>,
      false |-> <<"f","a","l","s","e">>,
      NaN |-> <<"N","a","N">>,
      Input_schema_validation_failed |-> <<"I","n","p","u","t"," ","s","c","h","e","m","a"," ","v","a","l","i","d","a","t","i","o","n"," ","f","a","i","l","e","d">>,
      status_toLowerCase_is_not_a_function |-> <<"s","t","a","t","u","s",".","t","o","L","o","w","e","r","C","a","s","e"," ","i","s"," ","n","o","t"," ","a"," ","f","u","n","c","t","i","o","n">>,
      Invalid_time_value |-> <<"I","n","v","a","l","i","d"," ","t","i","m","e"," ","v","a","l","u","e">>,
      Input_key_schema_validation_failed |-> <<"I","n","p","u","t"," ","k","e","y"," ","s","c","h","e","m","a"," ","v","a","l","i","d","a","t","i","o","n"," ","f","a","i","l","e","d">>,
      Simulated_API_failure |-> <<"S","i","m","u","l","a","t","e","d"," ","A","P","I"," ","f","a","i","l","u","r","e">>,
      enrichRecord |-> <<"e","n","r","i","c","h","R","e","c","o","r","d">>,
      object |-> <<"o","b","j","e","c","t">>,
      string |-> <<"s","t","r","i","n","g">>,
      numeric |-> <<"n","u","m","e","r","i","c">>,
      generated_from_value_id |-> <<"g","e","n","e","r","a","t","e","d","_","f","r","o","m","_","v","a","l","u","e","_","i","d">>,
      generated_from_value_uuid |-> <<"g","e","n","e","r","a","t","e","d","_","f","r","o","m","_","v","a","l","u","e","_","u","u","i","d">>,
      generated_uuid |-> <<"g","e","n","e","r","a","t","e","d","_","u","u","i","d">>,
      value_schema |-> <<"v","a","l","u","e","_","s","c","h","e","m","a">>,
      premium |-> <<"p","r","e","m","i","u","m">>,
      ext |-> <<"e","x","t","_">>,
      async_value |-> <<"a","s","y","n","c","_","v","a","l","u","e">>,
      No_natural_key_found__generated_UUID |-> <<"N","o"," ","n","a","t","u","r","a","l"," ","k","e","y"," ","f","o","u","n","d",","," ","g","e","n","e","r","a","t","e","d"," ","U","U","I","D">>,
      topic_replace_is_not_a_function |-> <<"t","o","p","i","c",".","r","e","p","l","a","c","e"," ","i","s"," ","n","o","t"," ","a"," ","f","u","n","c","t","i","o","n">>,
      unknown |-> <<"u","n","k","n","o","w","n">> ]

Returned(r) == [r |-> r, caught |-> FALSE]
Caught(r) == [r |-> r, caught |-> TRUE]

\* `${x}`: the string a template literal makes of a JSON value.
toStr(x) ==
    CASE x.k = "string" /\ "v" \in DOMAIN x -> x.v
      [] x.k = "number" /\ "v" \in DOMAIN x /\ x.v >= 0 -> Digits(x.v)
      [] x.k = "number" /\ "v" \in DOMAIN x /\ x.v < 0 -> <<"-">> \o Digits(0 - x.v)
      [] x.k = "number" /\ "big" \in DOMAIN x -> [i \in DOMAIN x.big |-> DigitChars[x.big[i] + 1]]
      [] x.k = "null" -> text.null
      [] x.k = "undefined" -> text.undefined
      [] x.k = "boolean" -> IF x.v THEN text.true ELSE text.false
      [] OTHER -> s_objectObject

\* new Date(t) is a valid date: a number, or null (the epoch).
isValidDate(t) == t.k \in {"number", "null"}

\* moment(t).format('YYYY-MM-DD'), the ten characters kept as one element.
datePrefixOf(t) == IF t.k \in {"number", "undefined"} THEN <<"YYYY-MM-DD">>
                   ELSE <<"Invalid date">>

AlphaNumeric ==
    {UpperCase[i] : i \in 1..Len(UpperCase)} \cup {LowerCase[i] : i \in 1..Len(LowerCase)}
      \cup {DigitChars[i] : i \in 1..Len(DigitChars)}

\* topic.replace(/[^a-zA-Z0-9]/g, '_')
topicPrefixOf(tp) == [i \in 1..Len(tp.v) |-> IF tp.v[i] \in AlphaNumeric THEN tp.v[i] ELSE "_"]

\* KeyTransform.transform (src/templates/keyTransform.ts).  No modelled
\* record has a user_id, so the hash strategy is not taken.
KeyTransform_transform_v1(v, key, tp, t) ==
    IF Truthy(v) /\ Truthy(Prop(v, "type"))
    THEN Returned(Str(toStr(Prop(v, "type")) \o <<"-">> \o toStr(key)))
    ELSE IF tp.k # "string"
         THEN Caught(Str(text.error \o toStr(key)))      \* topic.replace: TypeError
         ELSE Returned(Str(topicPrefixOf(tp) \o <<"-">> \o datePrefixOf(t)
                             \o <<"-">> \o toStr(key)))

KeyMaxLen == 255
KeyCut == 252
KeyProblemChars == {"<", ">", ":", "\"", "/", "\\", "|", "?", "*"}
\* Of the control characters \u0000-\u001F, those a key of the model can hold.
KeyControlChars == {"\t", "\n", "\r"}

sanitizeKey(chars) ==
    IF Len(chars) = 0 THEN Str(text.empty_key)
    ELSE LET sanitized == [i \in 1..Len(chars) |->
                             IF chars[i] \in KeyProblemChars \cup KeyControlChars
                             THEN "_" ELSE chars[i]]
         IN  IF Len(sanitized) > KeyMaxLen
             THEN Str(SubSeq(sanitized, 1, KeyCut) \o <<".", ".", ".">>)
             ELSE Str(sanitized)

validateKey(key) ==
    /\ Truthy(key) /\ typeOf(key) = "string"
    /\ Len(key.v) <= KeyMaxLen
    /\ \A i \in 1..Len(key.v) : key.v[i] \notin KeyProblemChars
    /\ \A i \in 1..Len(key.v) : key.v[i] \notin KeyControlChars

\* KeyTransform.normalizeTimestamp: below 10^12 is taken as seconds.
KeyTransform_normalizeTimestamp(t, now) ==
    IF t.k # "number" THEN DateNow(now)
    ELSE IF "big" \in DOMAIN t
         THEN IF Len(t.big) <= 12 THEN Ts(t.big \o <<0, 0, 0>>) ELSE t
         ELSE IF "v" \in DOMAIN t THEN Num(t.v * 1000)
              ELSE t

\* The millisecond value moment() gets for the date prefix in
\* KeyTransform.transform: transform normalizes the timestamp it is given.
KeyTransform_dateSource(t, now) == KeyTransform_normalizeTimestamp(t, now)

\* The same for KeyTransform.transformWithContext on a record without
\* tenant_id, priority and region: it normalizes the timestamp and hands
\* the normalized value to transform.
KeyTransform_transformWithContext_dateSource(t, now) ==
    KeyTransform_dateSource(KeyTransform_normalizeTimestamp(t, now), now)

\* KeyTransform.transform, the later version with input validation.
KeyTransform_transform(v, key, tp, t, now) ==
    IF ~Truthy(v) \/ typeOf(v) # "object"
    THEN Returned(sanitizeKey(text.invalid_value \o toStr(key)))
    ELSE IF ~Truthy(tp) \/ typeOf(tp) # "string"
    THEN Returned(sanitizeKey(text.invalid_topic \o toStr(key)))
    ELSE IF Truthy(Prop(v, "type")) /\ typeOf(Prop(v, "type")) = "string"
    THEN Returned(sanitizeKey(Prop(v, "type").v \o <<"-">> \o toStr(key)))
    ELSE LET normalizedTimestamp == KeyTransform_normalizeTimestamp(t, now)
             sanitizedResult ==
                 sanitizeKey(topicPrefixOf(tp) \o <<"-">> \o datePrefixOf(normalizedTimestamp)
                               \o <<"-">> \o toStr(key))
         IN  IF ~validateKey(sanitizedResult)
             THEN Returned([k |-> "string", fallback |-> now])
             ELSE Returned(sanitizedResult)

\* The field names of the modelled records, letter by letter.
KeySpelling ==
    [ id |-> <<"i","d">>,
      _id |-> <<"_","i","d">>,
      amount |-> <<"a","m","o","u","n","t">>,
      status |-> <<"s","t","a","t","u","s">>,
      type |-> <<"t","y","p","e">>,
      channel |-> <<"c","h","a","n","n","e","l">>,
      order_number |-> <<"o","r","d","e","r","_","n","u","m","b","e","r">>,
      priority |-> <<"p","r","i","o","r","i","t","y">>,
      compliance_required |-> <<"c","o","m","p","l","i","a","n","c","e","_","r","e","q","u","i","r","e","d">>,
      event_type |-> <<"e","v","e","n","t","_","t","y","p","e">>,
      customer_type |-> <<"c","u","s","t","o","m","e","r","_","t","y","p","e">>,
      fraud_score |-> <<"f","r","a","u","d","_","s","c","o","r","e">>,
      country |-> <<"c","o","u","n","t","r","y">>,
      order_id |-> <<"o","r","d","e","r","_","i","d">>,
      organization_id |-> <<"o","r","g","a","n","i","z","a","t","i","o","n","_","i","d">>,
      _schema |-> <<"_","s","c","h","e","m","a">>,
      schema |-> <<"s","c","h","e","m","a">>,
      firstName |-> <<"f","i","r","s","t","N","a","m","e">>,
      first_name |-> <<"f","i","r","s","t","_","n","a","m","e">>,
      userProfile |-> <<"u","s","e","r","P","r","o","f","i","l","e">>,
      user_profile |-> <<"u","s","e","r","_","p","r","o","f","i","l","e">>,
      emailAddress |-> <<"e","m","a","i","l","A","d","d","r","e","s","s">>,
      email_address |-> <<"e","m","a","i","l","_","a","d","d","r","e","s","s">> ]

IsUpperCase(c) == \E i \in 1..Len(UpperCase) : UpperCase[i] = c

\* str.replace(/([A-Z])/g, '_$1').toLowerCase()
RECURSIVE underscoreUpperCase(_)
underscoreUpperCase(chars) ==
    IF chars = << >> THEN << >>
    ELSE (IF IsUpperCase(Head(chars))
          THEN <<"_", toLowerCaseChar(Head(chars))>>
          ELSE <<Head(chars)>>) \o underscoreUpperCase(Tail(chars))

\* ... .replace(/^_/, '')
snakeCaseChars(chars) ==
    LET lowered == underscoreUpperCase(chars)
    IN  IF Len(lowered) > 0 /\ Head(lowered) = "_" THEN Tail(lowered) ELSE lowered

\* toSnakeCase on a field name.
toSnakeCase(key) ==
    CHOOSE name \in DOMAIN KeySpelling : KeySpelling[name] = snakeCaseChars(KeySpelling[key])

\* normalizeSchema: the keys are renamed, nested objects recursively.  When
\* two keys get the same name the one listed later is kept; the modelled
\* records list the key that is renamed after the one that is not.
RECURSIVE normalizeSchema(_)
normalizeSchema(x) ==
    LET renamed == {toSnakeCase(key) : key \in DOMAIN x.f}
        sources(nk) == {key \in DOMAIN x.f : toSnakeCase(key) = nk}
        last(nk) == IF sources(nk) = {nk} THEN nk
                    ELSE CHOOSE key \in sources(nk) : key # nk
        valueOf(nk) == x.f[last(nk)]
    IN  Obj([nk \in renamed |->
               IF valueOf(nk).k = "object" THEN normalizeSchema(valueOf(nk))
               ELSE valueOf(nk)])

\* The modelled keys that end in _id, and in _count or _number.
KeysEndingId == {"order_id", "organization_id"}
KeysEndingNumber == {"order_number"}

\* Number(value)
NumberOf(x) == IF x.k = "number" THEN x ELSE [k |-> "number", nan |-> TRUE]

transformDataTypes(x) ==
    Obj([key \in DOMAIN x.f |->
           IF key \in KeysEndingId /\ typeOf(x.f[key]) # "string" THEN Str(toStr(x.f[key]))
           ELSE IF key \in KeysEndingNumber THEN NumberOf(x.f[key])
           ELSE x.f[key]])

validateInputSchema(v) ==
    /\ Truthy(v) /\ typeOf(v) = "object"
    /\ HasKey(v, "id")
    /\ Truthy(Prop(v, "id")) => typeOf(Prop(v, "id")) \in {"string", "number"}
    /\ Truthy(Prop(v, "amount")) => typeOf(Prop(v, "amount")) = "number"

\* The error wrapper without the original value.
valueSchemaError_noOriginal(message, v, now) ==
    Obj([_error |-> Bool(TRUE),
         error_message |-> Str(message),
         error_timestamp |-> toISOString(now)])

\* The error wrapper of ValueSchemaTransform.transform.
valueSchemaError(message, v, now) ==
    Obj([_error |-> Bool(TRUE),
         error_message |-> Str(message),
         error_timestamp |-> toISOString(now),
         original_value |-> v])

\* ValueSchemaTransform.transform.  No modelled record has price, quantity
\* or created_at.
ValueSchemaTransform_transform(v, key, tp, t, now) ==
    IF ~validateInputSchema(v)
    THEN Caught(valueSchemaError(text.Input_schema_validation_failed, v, now))
    ELSE LET output == transformDataTypes(normalizeSchema(v))
             status == Prop(output, "status")
         IN  IF Truthy(status) /\ typeOf(status) # "string"
             THEN Caught(valueSchemaError(text.status_toLowerCase_is_not_a_function, v, now))
             ELSE Returned(Obj(Spread(
                    Spread(output.f,
                           IF Truthy(status) THEN [status |-> Str(toLowerCase(status.v))]
                           ELSE << >>),
                    [processed_timestamp |-> toISOString(now),
                     _schema |-> Obj([version |-> Str(s_transformVersion),
                                      transformed_at |-> toISOString(now),
                                      source_topic |-> tp,
                                      transformation_type |-> Str(text.value_schema)])])))

validateInputKeySchema(key) ==
    IF ~Truthy(key) THEN FALSE
    ELSE IF typeOf(key) = "string" THEN Len(key.v) > 0 /\ Len(key.v) <= KeyMaxLen
    ELSE IF typeOf(key) = "number" THEN TRUE
    ELSE IF typeOf(key) = "object"
         THEN /\ Truthy(Prop(key, "id")) \/ Truthy(Prop(key, "key"))
              /\ Truthy(Prop(key, "id")) => typeOf(Prop(key, "id")) \in {"string", "number"}
         ELSE TRUE

\* The characters with the codes 32 to 95 and 97 to 126, in the order of
\* their codes.
CharsFromSpace ==
    <<
      " ", "!", "\"", "#", "$", "%", "&", "'", "(", ")", "*", "+", ",", "-", ".", "/",
      "0", "1", "2", "3", "4", "5", "6", "7", "8", "9", ":", ";", "<", "=", ">", "?",
      "@", "A", "B", "C", "D", "E", "F", "G", "H", "I", "J", "K", "L", "M", "N", "O",
      "P", "Q", "R", "S", "T", "U", "V", "W", "X", "Y", "Z", "[", "\\", "]", "^", "_" >>
CharsFromLowerA ==
    <<
      "a", "b", "c", "d", "e", "f", "g", "h", "i", "j", "k", "l", "m", "n", "o",
      "p", "q", "r", "s", "t", "u", "v", "w", "x", "y", "z", "{", "|", "}", "~" >>

\* str.charCodeAt(i)
charCodeAt(c) ==
    CASE c = "\t" -> 9
      [] c = "\n" -> 10
      [] c = "\r" -> 13
      [] \E i \in 1..Len(CharsFromSpace) : CharsFromSpace[i] = c ->
            31 + CHOOSE i \in 1..Len(CharsFromSpace) : CharsFromSpace[i] = c
      [] OTHER ->
            96 + CHOOSE i \in 1..Len(CharsFromLowerA) : CharsFromLowerA[i] = c

\* hash = ((hash << 5) - hash) + char; hash = hash | 0: 31 * hash + char in
\* 32 bits, the bits kept as two halves of 16 bits.
hashStep(hash, char) ==
    LET low == hash.lo * 31 + char
    IN  [hi |-> (hash.hi * 31 + low \div 65536) % 65536, lo |-> low % 65536]

RECURSIVE hashLoop(_, _)
hashLoop(chars, hash) ==
    IF chars = << >> THEN hash
    ELSE hashLoop(Tail(chars), hashStep(hash, charCodeAt(Head(chars))))

\* Math.abs(hash) of a 32-bit integer: negative is whether hash was below 0,
\* hi and lo are the halves of the absolute value.
Math_abs(hash) ==
    IF hash.hi >= 32768
    THEN [negative |-> TRUE,
          hi |-> 65535 - hash.hi + (IF hash.lo = 0 THEN 1 ELSE 0),
          lo |-> (65536 - hash.lo) % 65536]
    ELSE [negative |-> FALSE, hi |-> hash.hi, lo |-> hash.lo]

\* KeySchemaTransform.simpleHash; a value without a length is hashed to 0.
simpleHash(x) ==
    IF x.k = "string" /\ "v" \in DOMAIN x
    THEN Math_abs(hashLoop(x.v, [hi |-> 0, lo |-> 0]))
    ELSE Math_abs([hi |-> 0, lo |-> 0])

\* a % 32 of JavaScript: the sign of the result is the sign of a.
remainder32(a) == IF a >= 0 THEN a % 32 ELSE 0 - ((0 - a) % 32)

\* simpleHash(x) % 32
partitionHintOf(x) == Num(simpleHash(x).lo % 32)

\* The error wrapper of KeySchemaTransform.transform.
keySchemaError(message, key, tp, now) ==
    Obj([_key_error |-> Bool(TRUE),
         error_message |-> Str(message),
         original_key |-> key,
         fallback_key |-> [k |-> "string", fallback |-> now, topic |-> toStr(tp)]])

generateDefaultKey(v, t, u) ==
    IF Truthy(v) /\ Truthy(Prop(v, "id"))
    THEN Obj([key |-> Prop(v, "id"), type |-> Str(text.generated_from_value_id),
              generated_at |-> [k |-> "string", isoOf |-> t]])
    ELSE IF Truthy(v) /\ Truthy(Prop(v, "uuid"))
    THEN Obj([key |-> Prop(v, "uuid"), type |-> Str(text.generated_from_value_uuid),
              generated_at |-> [k |-> "string", isoOf |-> t]])
    ELSE Obj([key |-> uuidv4(u), type |-> Str(text.generated_uuid),
              generated_at |-> [k |-> "string", isoOf |-> t],
              warning |-> Str(text.No_natural_key_found__generated_UUID)])

transformToStandardKeySchema(key, tp, t) ==
    IF typeOf(key) = "string"
    THEN Obj([key |-> key, type |-> Str(text.string), partition_hint |-> partitionHintOf(key)])
    ELSE IF typeOf(key) = "number"
    THEN Obj([key |-> Str(toStr(key)), type |-> Str(text.numeric),
              partition_hint |-> Num(remainder32(key.v))])
    ELSE LET standardKey == Spread(key.f,
                 [_metadata |-> Obj([transformed_at |-> [k |-> "string", isoOf |-> t],
                                     source_topic |-> tp,
                                     schema_version |-> Str(s_transformVersion)])])
         IN  IF "partition_hint" \in DOMAIN standardKey /\ Truthy(standardKey["partition_hint"])
             THEN Obj(standardKey)
             ELSE Obj(Spread(standardKey,
                    [partition_hint |->
                        partitionHintOf(Or(Or(Prop(key, "id"), Prop(key, "key")), Obj(standardKey)))]))

\* KeySchemaTransform.transform; new Date(timestamp).toISOString() throws a
\* RangeError for an invalid date.
KeySchemaTransform_transform(v, key, tp, t, now, u) ==
    IF ~Truthy(key)
    THEN IF isValidDate(t) THEN Returned(generateDefaultKey(v, t, u))
         ELSE Caught(keySchemaError(text.Invalid_time_value, key, tp, now))
    ELSE IF ~validateInputKeySchema(key)
    THEN Caught(keySchemaError(text.Input_key_schema_validation_failed, key, tp, now))
    ELSE IF typeOf(key) = "object" /\ ~isValidDate(t)
    THEN Caught(keySchemaError(text.Invalid_time_value, key, tp, now))
    ELSE Returned(transformToStandardKeySchema(key, tp, t))

\* createErrorContext(error, operation, record) for an Error.
createErrorContext(message, operation, record, now) ==
    [error_message |-> Str(message),
     error_operation |-> Str(operation),
     error_timestamp |-> toISOString(now),
     error_stack |-> [k |-> "string", stackOf |-> message],
     record_id |-> Or(idFieldOf(record), Str(text.unknown)),
     record_type |-> Or(Prop(record, "type"), Str(typeOf(record)))]

\* Mutant: the fallback record does not keep the fields of the record.
enrichRecordOutcome_fieldsLost(record, now, apiFails, score) ==
    LET recordId == idFieldOf(record)
    IN  IF ~Truthy(recordId) \/ apiFails
        THEN Caught(Obj([enrichment_error |-> Bool(TRUE)]))
        ELSE Returned(removeUndefinedValues(Obj(Spread(record.f,
               [enrichment |-> Obj([external_id |-> Str(text.ext \o toStr(recordId)),
                                    score |-> Num(score)]),
                enriched_at |-> toISOString(now)]))))

\* {...record}: the own fields of an object, none of null or undefined.
ownFields(record) == IF record.k = "object" THEN record.f ELSE << >>

\* The record the catch block of enrichRecord returns.
enrichFallback(record, message, now) ==
    Obj(Spread(Spread(ownFields(record), [enrichment_error |-> Bool(TRUE)]),
               createErrorContext(message, text.enrichRecord, record, now)))

\* What simulateApiCall resolves to.
apiResponse(recordId, score, now) ==
    Obj([external_id |-> Str(text.ext \o toStr(recordId)),
         score |-> Num(score),
         category |-> Str(text.premium),
         enriched_timestamp |-> toISOString(now),
         api_version |-> Str(<<"1",".","2",".","3">>)])

\* The record enrichRecord returns after the API call.
enrichedRecord(record, enrichmentData, now) ==
    removeUndefinedValues(Obj(Spread(ownFields(record),
        [enrichment |-> enrichmentData,
         enriched_at |-> toISOString(now),
         enrichment_version |-> Str(s_transformVersion)])))

\* CommonTransform.enrichRecord: the value its promise resolves to, and
\* whether the catch block made it.  apiFails is the simulated failure of
\* the API call, score the number it returns.
enrichRecordOutcome(record, now, apiFails, score) ==
    LET recordId == idFieldOf(record)
    IN  IF ~Truthy(recordId)
        THEN Caught(enrichFallback(record, text.No_valid_ID_found_for_enrichment, now))
        ELSE IF apiFails
        THEN Caught(enrichFallback(record, text.Simulated_API_failure, now))
        ELSE Returned(enrichedRecord(record, apiResponse(recordId, score, now), now))

enrichRecord(record, now, apiFails, score) ==
    enrichRecordOutcome(record, now, apiFails, score).r

\* ValueTransform.transformAsync: the value its promise resolves to.
ValueTransform_transformAsync(v, key, topicName, t, now, u, apiFails, score) ==
    IF ~validateInput(v, key, topicName, t)
    THEN Returned(Null)
    ELSE IF ~shouldKeepRecord(v)
         THEN Returned(Null)
         ELSE LET normalizedTimestamp == normalizeTimestamp(t, now)
                  transformedRecord ==
                      enrichRecord(transformRecord(v, normalizedTimestamp, now, u),
                                   now, apiFails, score)
              IN  Returned(removeUndefinedValues(Obj(Spread(transformedRecord.f,
                    [source_topic |-> sanitizeTopicName(topicName),
                     source_timestamp |-> normalizedTimestamp,
                     source_key |-> key,
                     transform_type |-> Str(text.async_value)]))))

(***************************************************************************)
(* Input records.                                                          *)
(***************************************************************************)
IdStrings ==
    { << >>, <<"o","1">>, s_test, <<"x">> \o s_test \o <<"x">>,
      <<"T","E","S","T">>, <<"T","e","s","t">>, <<"t","e","s">> }

IdChoices == {Absent} \cup {Str(s) : s \in IdStrings}

CustomerObjects ==
    { MkObj([_id |-> i, name |-> n, organization_id |-> o, version |-> Str(s_version)]) :
        i \in {Absent, Str(<<"c","1">>)},
        n \in {Absent, Str(<< >>), Str(<<"A","l">>)},
        o \in {Absent, Str(<<"o","B">>)} }

CustomerChoices == {Absent, Undefined, Null} \cup CustomerObjects

OrderInputs ==
    { MkObj([_id |-> a, order_id |-> b, order_type |-> t, order_number |-> Num(12345),
             organization_id |-> o, customer |-> c]) :
        a \in IdChoices, b \in IdChoices,
        t \in {Absent, Str(s_OrderType1), Str(s_OrderType2)},
        o \in {Absent, Str(<<"o","A">>)},
        c \in CustomerChoices }

UserObject ==
    MkObj([id |-> Str(<<"u","1">>), name |-> Str(<<"J","o">>), email |-> Str(<<"j","@","x">>)])

TemplateInputs ==
    { MkObj([id |-> a, _id |-> b, order_id |-> c, user |-> us, metadata |-> m,
             customer |-> cu]) :
        a \in {Absent, Str(<<"o","1">>), Str(s_test), Str(<<"T","E","S","T">>)},
        b \in {Absent, Str(<<"o","1">>), Str(s_test)},
        c \in {Absent, Str(s_test)},
        us \in {Absent, UserObject},
        m \in {Absent, MkObj([source |-> Str(<<"d","b">>)])},
        cu \in {Absent, MkObj([_id |-> Str(<<"c","1">>), name |-> Str(<<"A","l">>),
                               organization_id |-> Str(<<"o","B">>),
                               version |-> Str(s_version)])} }

\* Records with the fields the routing functions look at.
RoutingInputs ==
    { MkObj([id |-> i, type |-> ty, amount |-> am, channel |-> ch, order_number |-> n]) :
        i \in {Absent, Str(<<"o","1">>)},
        ty \in {Absent, Str(lit.high_priority), Str(lit.order), Str(lit.active_records)},
        am \in {Absent, Num(600), Num(2000)},
        ch \in {Absent, Str(lit.express), Str(lit.rpos)},
        n \in {Absent, Num(60000)} }
    \cup
    { MkObj([type |-> ty, status |-> st, priority |-> pr, compliance_required |-> co,
             event_type |-> ev]) :
        ty \in {Absent, Str(<<"a","c","t","i","v","e">>)},
        st \in {Absent, Str(<<"r","e","c","o","r","d","s">>)},
        pr \in {Absent, Num(1)},
        co \in {Absent, Bool(TRUE)},
        ev \in {Absent, Str(lit.login)} }
    \cup
    { MkObj([customer_type |-> ct, fraud_score |-> fr, country |-> co]) :
        ct \in {Absent, Str(lit.vip)},
        fr \in {Absent, Num(0), Num(1)},
        co \in {Absent, Str(lit.US), Str(<<"D","E">>)} }

\* Records for the schema transforms: id, amount and status of several types.
SchemaInputs ==
    { MkObj([id |-> Str(<<"o","1">>), _id |-> Num(3), amount |-> Num(5), status |-> Str(<<"O","K">>)]),
      MkObj([id |-> Str(<<"o","1">>), status |-> Num(5)]),
      MkObj([id |-> Str(<<"o","1">>), amount |-> Str(<<"x">>)]),
      MkObj([id |-> Undefined, amount |-> Num(5)]),
      MkObj([id |-> Bool(TRUE)]),
      MkObj([amount |-> Num(5)]) }

ValueInputs ==
    {Null, Undefined, Str(<<"v">>)} \cup OrderInputs \cup TemplateInputs
      \cup RoutingInputs \cup SchemaInputs

\* The keys the platform passes.
Keys ==
    { Str(<<"k">>), Str(<< >>), Str(<<"k", ":", "\t">>), Null, Undefined, Num(7), Num(0 - 5),
      Obj(<< >>),
      MkObj([id |-> Str(<<"k","1">>)]), MkObj([key |-> Bool(TRUE)]) }

\* The topic and timestamp arguments the platform passes.
Topics == { Str(<<".","a","$">>), Str(<<" ">>) }
\* ... and a topic that is not a string.
AnyTopics == Topics \cup {Null}
Timestamps == { Undefined, Ts(<<1,6,9,3,5,2,6,4,0,0,0,0,0>>) }
\* ... and a timestamp that is not a number.
AnyTimestamps == Timestamps \cup {Str(<<"x">>)}

(***************************************************************************)
(* Calls of the transforms on one record.                                  *)
(***************************************************************************)
\* The generator is not running.
Pending == [state |-> "pending"]

EIdle ==
    /\ enrichArg = Null
    /\ epc = "idle"
    /\ apiCalls = 0
    /\ timers = {}
    /\ apiPromise = Pending
    /\ enrichPromise = Pending
    /\ settlements = 0
    /\ timeoutFired = FALSE

RIdle ==
    /\ jsonRecord = Null
    /\ valid = NotCalled
    /\ json = NotCalled
    /\ loaded = NotCalled
    /\ sequenceCount = 0
    /\ sequence = NotCalled

UIdle ==
    /\ testArgs = << >>
    /\ testAll = FALSE
    /\ shouldBuild = FALSE
    /\ testTypes = {}
    /\ transformsDir = [exists |-> FALSE, dirs |-> {}]
    /\ transformsToTest = {}
    /\ execLog = << >>
    /\ tpc = "idle"
    /\ testExit = << >>

BIdle ==
    /\ argv = << >>
    /\ srcTemplatesIndex = FALSE
    /\ treeAtStart = [exists |-> FALSE, files |-> << >>]
    /\ tree = treeAtStart
    /\ mainJs = "absent"
    /\ mainCode = "unread"
    /\ pc = "idle"
    /\ transformsToBuild = << >>
    /\ useTemplateStructure = FALSE
    /\ idx = 1
    /\ fidx = 1
    /\ clock = 0
    /\ errorLog = << >>
    /\ failed = "none"
    /\ exitCode = << >>

TInit ==
    /\ BIdle
    /\ RIdle
    /\ UIdle
    /\ EIdle
    /\ valueObject \in ValueInputs
    /\ keyObject = Str(<<"k">>)
    /\ topic = Str(<<"t">>)
    /\ timestamp = Undefined
    /\ called = "none"
    /\ result = NotCalled
    /\ caught = FALSE

Return(name, r) ==
    /\ called = "none"
    /\ called' = name
    /\ result' = r
    /\ caught' = FALSE
    /\ UNCHANGED <<valueObject, keyObject, topic, timestamp>>
    /\ UNCHANGED <<bvars, rvars, uvars, evars>>

CallTransform ==
    \E now \in Clock, u \in Uuids :
        Return("OrderTransformer.transform", OrderTransformer_transform(valueObject, now, u))

CallMapFilterExample ==
    \E now \in Clock, u \in Uuids :
        Return("map_filter.example", streamkap_transform_map_filter(valueObject, now, u))

CallUnNestingExample ==
    \E now \in Clock, u \in Uuids :
        Return("un_nesting.example", streamkap_transform_un_nesting(valueObject, now, u))

\* The generated enrich_async function of example mode is called.
CallEnrichAsyncExample ==
    /\ called = "none"
    /\ \E now \in Clock, u \in Uuids :
          LET out == streamkap_transform_enrich_async(valueObject, now, u)
          IN  /\ called' = "enrich_async.example"
              /\ result' = out.r
              /\ caught' = out.caught
              /\ valueObject' = out.input
    /\ UNCHANGED <<keyObject, topic, timestamp>>
    /\ UNCHANGED <<bvars, rvars, uvars, evars>>

ReturnWith(name, tp, t, r) ==
    /\ called = "none"
    /\ called' = name
    /\ topic' = tp
    /\ timestamp' = t
    /\ result' = r
    /\ caught' = FALSE
    /\ UNCHANGED <<valueObject, keyObject>>
    /\ UNCHANGED <<bvars, rvars, uvars, evars>>

\* A call with key, topic and timestamp returns out.r; out.caught tells
\* whether its catch block ran.
ReturnFrom(name, key, tp, t, out) ==
    /\ called = "none"
    /\ called' = name
    /\ keyObject' = key
    /\ topic' = tp
    /\ timestamp' = t
    /\ result' = out.r
    /\ caught' = out.caught
    /\ UNCHANGED valueObject
    /\ UNCHANGED <<bvars, rvars, uvars, evars>>

CallShouldKeepRecord_v1 ==
    Return("shouldKeepRecord.v1", Bool(shouldKeepRecord_v1(valueObject)))

CallShouldKeepRecord ==
    Return("shouldKeepRecord", Bool(shouldKeepRecord(valueObject)))

CallValueTransform_v1 ==
    \E tp \in Topics, t \in Timestamps, now \in Clock, u \in Uuids :
        ReturnWith("ValueTransform.transform.v1", tp, t,
                   ValueTransform_transform_v1(valueObject, keyObject, tp, t, now, u))

CallMapFilterTemplate ==
    \E tp \in Topics, t \in Timestamps, now \in Clock, u \in Uuids :
        ReturnWith("map_filter.template", tp, t,
                   streamkap_transform_map_filter_template(valueObject, keyObject, tp, t, now, u))

CallUnNestingTemplate ==
    \E tp \in Topics, t \in Timestamps, now \in Clock :
        ReturnWith("un_nesting.template", tp, t,
                   streamkap_transform_un_nesting_template(valueObject, keyObject, tp, t, now))

CallTopicExample ==
    Return("topic.example", streamkap_transform_topic(valueObject))

CallTopicTemplate ==
    \E tp \in Topics, t \in Timestamps, businessHours \in BOOLEAN :
        ReturnWith("topic.template", tp, t,
                   streamkap_transform_topic_template(valueObject, keyObject, tp, t,
                                                      businessHours))

CallGetRoutingTopics_v1 ==
    \E tp \in Topics :
        ReturnWith("getRoutingTopics.v1", tp, timestamp, getRoutingTopics_v1(valueObject, tp))

CallGetRoutingTopics ==
    \E tp \in Topics :
        ReturnWith("getRoutingTopics", tp, timestamp, getRoutingTopics(valueObject, tp))

CallTopicTransform ==
    \E tp \in Topics, t \in Timestamps, businessHours \in BOOLEAN :
        ReturnWith("TopicTransform.transform", tp, t,
                   TopicTransform_transform(valueObject, keyObject, tp, t, businessHours))

CallComplexRoute ==
    \E tp \in Topics, t \in Timestamps, old \in BOOLEAN :
        ReturnWith("TopicTransform.complexRoute", tp, t,
                   TopicTransform_complexRoute(valueObject, keyObject, tp, t, old))

CallConditionalRoute ==
    \E tp \in Topics, t \in Timestamps, recent \in BOOLEAN :
        ReturnWith("TopicTransform.conditionalRoute", tp, t,
                   TopicTransform_conditionalRoute(valueObject, keyObject, tp, t, recent))

\* The records the key, schema and asynchronous transforms are called with.
KeyedInputs ==
    {Null, Undefined, Str(<<"v">>), MkObj([id |-> Str(s_test)])}
      \cup SchemaInputs \cup RoutingInputs

\* Positive timestamps of 1 to 19 digits, as digit sequences, and two small
\* numbers.
TimestampMagnitudes ==
    { Ts([i \in 1..n |-> IF i = 1 THEN d ELSE (i + d) % 10]) :
        n \in {1, 9, 10, 11, 12, 13, 14, 16, 17, 19}, d \in {1, 9} }
      \cup {Num(5), Num(1693)}

\* normalizeTimestamp takes the timestamp alone; it is called in the state
\* whose record is null.
CallNormalizeTimestamp ==
    /\ valueObject = Null
    /\ \E t \in TimestampMagnitudes \cup AnyTimestamps, now \in Clock :
           ReturnWith("CommonTransform.normalizeTimestamp", topic, t,
                      normalizeTimestamp(t, now))

CallKeyNormalizeTimestamp ==
    /\ valueObject = Null
    /\ \E t \in TimestampMagnitudes \cup AnyTimestamps, now \in Clock :
           ReturnWith("KeyTransform.normalizeTimestamp", topic, t,
                      KeyTransform_normalizeTimestamp(t, now))

\* The strings simpleHash is applied to: short ones, and ones long enough
\* for the 32 bits to wrap around.
HashStrings ==
    { Str(<< >>), Str(<<"k">>), Str(<<"o", "r", "d", "e", "r", "-", "1", "2", "3">>),
      Str(<<"c", "u", "s", "t", "o", "m", "e", "r", "_", "4", "2">>),
      Str(<<"z", "z", "z", "z", "z", "z", "z">>) }

\* Records for normalizeSchema: camelCase keys, keys with a leading
\* underscore, and a record with both id and _id.
NormalizeInputs ==
    { MkObj([firstName |-> Str(<<"J","o">>),
             userProfile |-> MkObj([emailAddress |-> Str(<<"j","@","x">>)])]),
      MkObj([_id |-> Str(<<"a","1">>), order_id |-> Str(<<"o","1">>),
             _schema |-> Str(<<"v","1">>)]),
      MkObj([id |-> Str(<<"o","1">>), _id |-> Num(3)]),
      MkObj([first_name |-> Str(<<"J","o">>), amount |-> Num(5)]),
      MkObj([order_id |-> Str(<<"o","1">>), status |-> Str(<<"O","K">>)]) }

\* normalizeSchema takes a record alone; it is called in the state whose
\* record is null, and applied to the record and to its own result.
CallNormalizeSchema ==
    /\ valueObject = Null
    /\ \E x \in NormalizeInputs :
           LET once == normalizeSchema(x)
           IN  ReturnFrom("ValueSchemaTransform.normalizeSchema", x, topic, timestamp,
                          Returned(Arr(<<once, normalizeSchema(once)>>)))

\* simpleHash takes a string alone; it is called in the state whose record
\* is null.
CallSimpleHash ==
    /\ valueObject = Null
    /\ \E str \in HashStrings :
           ReturnFrom("KeySchemaTransform.simpleHash", str, topic, timestamp,
                      Returned([k |-> "number", int32 |-> simpleHash(str)]))

\* normalizeTimestamp applied to a timestamp and to its own result.
CallNormalizeTimestampTwice ==
    /\ valueObject = Null
    /\ \E t \in TimestampMagnitudes, now \in Clock :
           LET once == normalizeTimestamp(t, now)
           IN  ReturnWith("CommonTransform.normalizeTimestamp.twice", topic, t,
                          Arr(<<once, normalizeTimestamp(once, now)>>))

\* ValueTransform.transform with timestamps of every magnitude.
CallValueTransform ==
    /\ valueObject \in KeyedInputs
    /\ \E t \in TimestampMagnitudes, now \in Clock, u \in Uuids :
           ReturnWith("ValueTransform.transform", topic, t,
                      ValueTransform_transform(valueObject, keyObject, topic, t, now, u))

\* The date prefix of a key: the millisecond value it is derived from in
\* transformWithContext and in a direct call of transform, for a record
\* that takes the date-based strategy.
CallTransformWithContext ==
    /\ valueObject \in KeyedInputs
    /\ valueObject.k = "object"
    /\ \A key \in {"type", "tenant_id", "priority", "region"} : ~HasKey(valueObject, key)
    /\ \E t \in TimestampMagnitudes, now \in Clock :
           ReturnWith("KeyTransform.transformWithContext.dateSource", topic, t,
                      Arr(<<KeyTransform_transformWithContext_dateSource(t, now),
                            KeyTransform_dateSource(t, now)>>))

\* transform called twice on the same input, the second call not earlier
\* than the first; the result is the pair of outputs, or the exception of
\* the first call.
CallOrderTransformerTwice ==
    /\ valueObject \in OrderInputs
    /\ \E now1 \in Clock, now2 \in Clock, u1 \in Uuids, u2 \in Uuids :
           /\ now1 <= now2
           /\ LET first == OrderTransformer_transform(valueObject, now1, u1)
                  second == OrderTransformer_transform(valueObject, now2, u2)
              IN  Return("OrderTransformer.transform.twice",
                         IF first.k = "throw" THEN first ELSE Arr(<<first, second>>))

CallKeyTransform_v1 ==
    /\ valueObject \in KeyedInputs
    /\ \E key \in Keys, tp \in AnyTopics, t \in AnyTimestamps :
           ReturnFrom("KeyTransform.transform.v1", key, tp, t,
                      KeyTransform_transform_v1(valueObject, key, tp, t))

CallKeyTransform ==
    /\ valueObject \in KeyedInputs
    /\ \E key \in Keys, tp \in AnyTopics, t \in AnyTimestamps, now \in Clock :
           ReturnFrom("KeyTransform.transform", key, tp, t,
                      KeyTransform_transform(valueObject, key, tp, t, now))

CallValueSchemaTransform ==
    /\ valueObject \in KeyedInputs
    /\ \E tp \in AnyTopics, t \in AnyTimestamps, now \in Clock :
           ReturnFrom("ValueSchemaTransform.transform", keyObject, tp, t,
                      ValueSchemaTransform_transform(valueObject, keyObject, tp, t, now))

CallKeySchemaTransform ==
    /\ valueObject \in KeyedInputs
    /\ \E key \in Keys, tp \in AnyTopics, t \in AnyTimestamps, now \in Clock, u \in Uuids :
           ReturnFrom("KeySchemaTransform.transform", key, tp, t,
                      KeySchemaTransform_transform(valueObject, key, tp, t, now, u))

\* enrichRecord is called with a record object.
CallEnrichRecord ==
    /\ valueObject \in KeyedInputs
    /\ valueObject.k = "object"
    /\ \E now \in Clock, apiFails \in BOOLEAN, score \in {0, 99} :
           ReturnFrom("CommonTransform.enrichRecord", keyObject, topic, timestamp,
                      enrichRecordOutcome(valueObject, now, apiFails, score))

CallTransformAsync ==
    /\ valueObject \in KeyedInputs
    /\ \E tp \in AnyTopics, t \in AnyTimestamps, now \in Clock, u \in Uuids,
          apiFails \in BOOLEAN, score \in {0, 99} :
           ReturnFrom("ValueTransform.transformAsync", keyObject, tp, t,
                      ValueTransform_transformAsync(valueObject, keyObject, tp, t, now, u,
                                              apiFails, score))

TNext ==
    \/ CallNormalizeSchema
    \/ CallSimpleHash
    \/ CallNormalizeTimestampTwice
    \/ CallValueTransform
    \/ CallTransformWithContext
    \/ CallEnrichAsyncExample
    \/ CallEnrichRecord
    \/ CallNormalizeTimestamp
    \/ CallKeyNormalizeTimestamp
    \/ CallOrderTransformerTwice
    \/ CallKeyTransform_v1
    \/ CallKeyTransform
    \/ CallValueSchemaTransform
    \/ CallKeySchemaTransform
    \/ CallTransformAsync
    \/ CallTopicExample
    \/ CallTopicTemplate
    \/ CallGetRoutingTopics_v1
    \/ CallGetRoutingTopics
    \/ CallTopicTransform
    \/ CallComplexRoute
    \/ CallConditionalRoute
    \/ CallTransform
    \/ CallMapFilterExample
    \/ CallUnNestingExample
    \/ CallShouldKeepRecord_v1
    \/ CallShouldKeepRecord
    \/ CallValueTransform_v1
    \/ CallMapFilterTemplate
    \/ CallUnNestingTemplate

SpecTransform == TInit /\ [][TNext]_vars

(***************************************************************************)
(* The generator (build-multiple.js).  A path below the output directory   *)
(* is the sequence of its components; a file's content is a record: a role *)
(* file holds its code as the sequence of its sections (header, bundle,    *)
(* then one entry per top-level function declaration, in order).           *)
(***************************************************************************)
MaxArgs == 2

a_map_filter == <<"-","-","m","a","p","-","f","i","l","t","e","r">>
a_fan_out == <<"-","-","f","a","n","-","o","u","t">>
a_enrich_async == <<"-","-","e","n","r","i","c","h","-","a","s","y","n","c">>
a_un_nesting == <<"-","-","u","n","-","n","e","s","t","i","n","g">>
a_all == <<"-","-","a","l","l">>
a_sql_join == <<"-","-","s","q","l","-","j","o","i","n">>
a_bare == <<"m","a","p","-","f","i","l","t","e","r">>

Args == {a_map_filter, a_fan_out, a_enrich_async, a_un_nesting, a_all,
         a_sql_join, a_bare}
ArgLists == UNION {[1..n -> Args] : n \in 0..MaxArgs}

t_map_filter == <<"m","a","p","_","f","i","l","t","e","r">>
t_fan_out == <<"f","a","n","_","o","u","t">>
t_enrich_async == <<"e","n","r","i","c","h","_","a","s","y","n","c">>
t_un_nesting == <<"u","n","_","n","e","s","t","i","n","g">>

transforms ==
    << [name |-> "mapFilterTransform", type |-> t_map_filter,
        language |-> "JAVASCRIPT",
        description |-> "Map/Filter transform - modify and filter records",
        functions |-> <<"valueTransform", "keyTransform">>,
        folder |-> "map-filter"],
       [name |-> "fanOutTransform", type |-> t_fan_out,
        language |-> "JAVASCRIPT",
        description |-> "Fan Out - route records to multiple topics",
        functions |-> <<"valueTransform", "topicTransform">>,
        folder |-> "fan-out"],
       [name |-> "enrichAsyncTransform", type |-> t_enrich_async,
        language |-> "JAVASCRIPT",
        description |-> "Async Enrich - enrich records with REST API calls",
        functions |-> <<"valueTransform">>,
        folder |-> "enrich-async"],
       [name |-> "unNestingTransform", type |-> t_un_nesting,
        language |-> "JAVASCRIPT",
        description |-> "Un Nesting - flatten nested objects/arrays",
        functions |-> <<"valueTransform">>,
        folder |-> "un-nesting"] >>

\* arg.startsWith('--')
startsWithDashes(arg) == Len(arg) >= 2 /\ arg[1] = "-" /\ arg[2] = "-"

\* arg.substring(2)
substring2(arg) == SubSeq(arg, 3, Len(arg))

\* s.replace(a, b) with string arguments: the first occurrence only.
replace(s, a, b) ==
    IF \E i \in DOMAIN s : s[i] = a
    THEN LET i == CHOOSE j \in DOMAIN s :
                      s[j] = a /\ \A h \in 1..(j - 1) : s[h] # a
         IN  [s EXCEPT ![i] = b]
    ELSE s

parseArgs(args) ==
    LET all == Len(args) = 0 \/ \E i \in DOMAIN args : args[i] = a_all
    IN  [buildAll |-> all,
         requestedTypes |->
            IF all THEN {}
            ELSE {replace(substring2(args[i]), "-", "_") :
                     i \in {j \in DOMAIN args : startsWithDashes(args[j])}}]

\* Mutant: the whole table is selected whatever was requested.
selectTransforms_wholeTable(p) == transforms

\* transforms.filter(t => requestedTypes.has(t.type)), or the whole table.
selectTransforms(p) ==
    IF p.buildAll THEN transforms
    ELSE LET requested(t) == t.type \in p.requestedTypes
         IN  SelectSeq(transforms, requested)

s_templateEntry == "src/templates/index.ts"
s_exampleEntry == "src/value_transform.ts"
entryPointOf(useTemplate) == IF useTemplate THEN s_templateEntry ELSE s_exampleEntry

RECURSIVE groupByFolder(_, _)
groupByFolder(ts, groups) ==
    IF ts = << >> THEN groups
    ELSE LET t == Head(ts)
         IN  IF \E i \in DOMAIN groups : groups[i].folder = t.folder
             THEN groupByFolder(Tail(ts),
                    [i \in DOMAIN groups |->
                        IF groups[i].folder = t.folder
                        THEN [groups[i] EXCEPT !.transforms = Append(@, t)]
                        ELSE groups[i]])
             ELSE groupByFolder(Tail(ts),
                    Append(groups, [folder |-> t.folder, transforms |-> <<t>>]))

\* folderGroups, as the list of its entries in insertion order.
folderGroupsOf(ts) == groupByFolder(ts, << >>)

PlatformParams == <<"valueObject", "keyObject", "topic", "timestamp">>

Function(n, ps) == [sec |-> "function", name |-> n, params |-> ps, async |-> FALSE]
AsyncFunction(n, ps) == [sec |-> "function", name |-> n, params |-> ps, async |-> TRUE]

generateFileHeader(transform, funcType, now) ==
    [sec |-> "header", type |-> transform.type, language |-> transform.language,
     description |-> transform.description, funcType |-> funcType,
     generatedOn |-> toISOString(now)]

generateSharedUtilities ==
    << Function("formatTimestamp", <<"timestamp">>),
       Function("generateProcessingId", << >>),
       Function("validateOrderStructure", <<"order">>),
       Function("safeStringify", <<"obj">>) >>

\* Mutant: the enrichment function is declared like the others.
generateValueTransform_neverAsync(transform, useTemplate) ==
    << Function("_streamkap_transform", PlatformParams) >>

generateValueTransform(transform, useTemplate) ==
    IF useTemplate
    THEN IF transform.type = t_enrich_async
         THEN << AsyncFunction("_streamkap_transform", PlatformParams) >>
         ELSE << Function("_streamkap_transform", PlatformParams) >>
    ELSE IF transform.type = t_enrich_async
         THEN << AsyncFunction("_streamkap_transform", PlatformParams),
                 AsyncFunction("simulateApiCall", <<"customerId">>) >>
         ELSE << Function("_streamkap_transform", PlatformParams) >>

generateKeyTransform(transform, useTemplate) ==
    << Function("_streamkap_transform_key", PlatformParams) >>

generateTopicTransform(transform, useTemplate) ==
    << Function("_streamkap_transform_topic", PlatformParams) >>

generateJavaScriptFunction(transform, funcType, useTemplate) ==
    CASE funcType = "valueTransform" -> generateValueTransform(transform, useTemplate)
      [] funcType = "keyTransform" -> generateKeyTransform(transform, useTemplate)
      [] funcType = "topicTransform" -> generateTopicTransform(transform, useTemplate)
      [] OTHER -> << >>

\* Mutant: the role function is written before the shared utilities.
transformCodeOf_utilitiesLast(transform, funcType, bundle, useTemplate, now) ==
    << generateFileHeader(transform, funcType, now),
       [sec |-> "bundle", entryPoint |-> bundle] >>
    \o generateJavaScriptFunction(transform, funcType, useTemplate)
    \o generateSharedUtilities

\* The text written to <folder>/<funcType>.js.
transformCodeOf(transform, funcType, bundle, useTemplate, now) ==
    << generateFileHeader(transform, funcType, now),
       [sec |-> "bundle", entryPoint |-> bundle] >>
    \o generateSharedUtilities
    \o generateJavaScriptFunction(transform, funcType, useTemplate)

RECURSIVE readmeEntries(_)
readmeEntries(ts) ==
    IF ts = << >> THEN << >>
    ELSE << [file |-> Head(ts).name \o ".js", type |-> Head(ts).type,
             description |-> Head(ts).description] >> \o readmeEntries(Tail(ts))

\* The 'Folder Structure' part of the README: per folder, the files it names.
readmeContentOf(groups, now) ==
    [kind |-> "readme", generatedOn |-> toISOString(now),
     folders |-> [i \in DOMAIN groups |->
                    [folder |-> groups[i].folder,
                     entries |-> readmeEntries(groups[i].transforms)]]]

NoFiles == << >>
README == <<"README.md">>
StaleFile == [kind |-> "stale"]
StalePaths == {<<"map-filter", "mapFilterTransform.js">>,
               <<"fan-out", "valueTransform.js">>}

\* The output directory before the run: absent, or holding earlier files.
StartTrees ==
    {[exists |-> FALSE, files |-> NoFiles]} \cup
    {[exists |-> TRUE, files |-> [p \in ps |-> StaleFile]] : ps \in SUBSET StalePaths}

\* Mutant: the earlier output is left in place.
rmSync_keepFiles(t) == t

\* fs.rmSync(outputDir, { recursive: true, force: true })
rmSync(t) == [exists |-> FALSE, files |-> NoFiles]

\* fs.mkdirSync(outputDir)
mkdirSync(t) == [t EXCEPT !.exists = TRUE]

\* fs.writeFileSync(path.join(...), content)
writeFileSync(t, p, content) ==
    [t EXCEPT !.files = [q \in DOMAIN t.files \cup {p} |->
                            IF q = p THEN content ELSE t.files[q]]]

TIdle ==
    /\ valueObject = Null
    /\ keyObject = Str(<<"k">>)
    /\ topic = Str(<<"t">>)
    /\ timestamp = Undefined
    /\ called = "none"
    /\ result = NotCalled
    /\ caught = FALSE

BInit ==
    /\ argv \in ArgLists
    /\ srcTemplatesIndex \in BOOLEAN
    /\ treeAtStart \in StartTrees
    /\ tree = treeAtStart
    /\ mainJs = "absent"
    /\ mainCode = "unread"
    /\ pc = "start"
    /\ transformsToBuild = << >>
    /\ useTemplateStructure = FALSE
    /\ idx = 1
    /\ fidx = 1
    /\ clock = 0
    /\ errorLog = << >>
    /\ failed = "none"
    /\ exitCode = << >>
    /\ TIdle
    /\ RIdle
    /\ UIdle
    /\ EIdle

\* Mutant: the process ends with code 0 whatever code is asked for.
Exit_success(code, why) ==
    /\ pc' = "exited"
    /\ exitCode' = <<0>>
    /\ failed' = why

\* process.exit(code)
Exit(code, why) ==
    /\ pc' = "exited"
    /\ exitCode' = <<code>>
    /\ failed' = why

\* An exception leaves buildTransforms: the promise it returned is rejected.
Throw(why) ==
    /\ pc' = "rejected"
    /\ failed' = why
    /\ UNCHANGED exitCode

\* parseArgs and the selection of the transforms to build.
SelectTransforms ==
    /\ pc = "start"
    /\ LET selected == selectTransforms(parseArgs(argv))
       IN  IF ~parseArgs(argv).buildAll /\ Len(selected) = 0
           THEN /\ Exit(1, "no valid transform types")
                /\ UNCHANGED transformsToBuild
           ELSE /\ transformsToBuild' = selected
                /\ pc' = "prepare"
                /\ UNCHANGED <<exitCode, failed>>
    /\ UNCHANGED <<argv, srcTemplatesIndex, treeAtStart, tree, mainJs, mainCode,
                   useTemplateStructure, idx, fidx, clock>>
    /\ UNCHANGED <<tvars, rvars, uvars, evars, errorLog>>

\* The structure is detected and the output directory is emptied.
PrepareOutputDir ==
    /\ pc = "prepare"
    /\ useTemplateStructure' = srcTemplatesIndex
    /\ tree' = mkdirSync(IF tree.exists THEN rmSync(tree) ELSE tree)
    /\ pc' = "bundle"
    /\ UNCHANGED <<argv, srcTemplatesIndex, treeAtStart, mainJs, mainCode,
                   transformsToBuild, idx, fidx, clock, failed, exitCode>>
    /\ UNCHANGED <<tvars, rvars, uvars, evars, errorLog>>

\* fs.rmSync or fs.mkdirSync throws.
PrepareOutputDirFails ==
    /\ pc = "prepare"
    /\ useTemplateStructure' = srcTemplatesIndex
    /\ Throw("output directory")
    /\ UNCHANGED <<argv, srcTemplatesIndex, treeAtStart, tree, mainJs, mainCode,
                   transformsToBuild, idx, fidx, clock>>
    /\ UNCHANGED <<tvars, rvars, uvars, evars, errorLog>>

\* esbuild writes main.js.
Bundle ==
    /\ pc = "bundle"
    /\ mainJs' = entryPointOf(useTemplateStructure)
    /\ pc' = "read"
    /\ UNCHANGED <<argv, srcTemplatesIndex, treeAtStart, tree, mainCode,
                   transformsToBuild, useTemplateStructure, idx, fidx, clock,
                   failed, exitCode>>
    /\ UNCHANGED <<tvars, rvars, uvars, evars, errorLog>>

\* execSync throws: the catch block exits with code 1.
BundleFails ==
    /\ pc = "bundle"
    /\ errorLog' = Append(errorLog, "Failed to build main bundle")
    /\ Exit(1, "bundle")
    /\ UNCHANGED <<argv, srcTemplatesIndex, treeAtStart, tree, mainJs, mainCode,
                   transformsToBuild, useTemplateStructure, idx, fidx, clock>>
    /\ UNCHANGED <<tvars, rvars, uvars, evars>>

\* fs.readFileSync('main.js')
ReadBundle ==
    /\ pc = "read"
    /\ mainCode' = mainJs
    /\ pc' = "emit"
    /\ idx' = 1
    /\ fidx' = 1
    /\ UNCHANGED <<argv, srcTemplatesIndex, treeAtStart, tree, mainJs,
                   transformsToBuild, useTemplateStructure, clock, failed, exitCode>>
    /\ UNCHANGED <<tvars, rvars, uvars, evars, errorLog>>

ReadBundleFails ==
    /\ pc = "read"
    /\ Throw("read bundle")
    /\ UNCHANGED <<argv, srcTemplatesIndex, treeAtStart, tree, mainJs, mainCode,
                   transformsToBuild, useTemplateStructure, idx, fidx, clock>>
    /\ UNCHANGED <<tvars, rvars, uvars, evars, errorLog>>

\* One pass of the inner loop: the folder is created if it is missing and
\* <folder>/<funcType>.js is written.
EmitRoleFile ==
    /\ pc = "emit"
    /\ \E now \in clock..MaxClock :
        LET transform == transformsToBuild[idx]
            funcType == transform.functions[fidx]
            fileName == funcType \o ".js"
            outputPath == <<transform.folder, fileName>>
            transformCode == transformCodeOf(transform, funcType, mainCode,
                                             useTemplateStructure, now)
        IN  /\ tree' = writeFileSync(tree, outputPath,
                                     [kind |-> "role", code |-> transformCode])
            /\ clock' = now
            /\ IF fidx < Len(transform.functions)
               THEN /\ fidx' = fidx + 1
                    /\ UNCHANGED <<idx, pc>>
               ELSE IF idx < Len(transformsToBuild)
               THEN /\ idx' = idx + 1
                    /\ fidx' = 1
                    /\ UNCHANGED pc
               ELSE /\ pc' = "readme"
                    /\ UNCHANGED <<idx, fidx>>
    /\ UNCHANGED <<argv, srcTemplatesIndex, treeAtStart, mainJs, mainCode,
                   transformsToBuild, useTemplateStructure, failed, exitCode>>
    /\ UNCHANGED <<tvars, rvars, uvars, evars, errorLog>>

\* fs.mkdirSync of the folder or fs.writeFileSync of the role file throws.
EmitRoleFileFails ==
    /\ pc = "emit"
    /\ Throw("role file")
    /\ UNCHANGED <<argv, srcTemplatesIndex, treeAtStart, tree, mainJs, mainCode,
                   transformsToBuild, useTemplateStructure, idx, fidx, clock>>
    /\ UNCHANGED <<tvars, rvars, uvars, evars, errorLog>>

\* generateOutputReadme, the removal of main.js (its failure is swallowed),
\* and the normal end of the process.
WriteReadme ==
    /\ pc = "readme"
    /\ \E now \in clock..MaxClock :
        /\ tree' = writeFileSync(tree, README,
                      readmeContentOf(folderGroupsOf(transformsToBuild), now))
        /\ clock' = now
    /\ \E unlinked \in BOOLEAN : mainJs' = IF unlinked THEN "absent" ELSE mainJs
    /\ Exit(0, "none")
    /\ UNCHANGED <<argv, srcTemplatesIndex, treeAtStart, mainCode,
                   transformsToBuild, useTemplateStructure, idx, fidx>>
    /\ UNCHANGED <<tvars, rvars, uvars, evars, errorLog>>

WriteReadmeFails ==
    /\ pc = "readme"
    /\ Throw("README")
    /\ UNCHANGED <<argv, srcTemplatesIndex, treeAtStart, tree, mainJs, mainCode,
                   transformsToBuild, useTemplateStructure, idx, fidx, clock>>
    /\ UNCHANGED <<tvars, rvars, uvars, evars, errorLog>>

\* buildTransforms().catch(console.error): the rejection is logged and the
\* process ends normally.
CatchLogged ==
    /\ pc = "rejected"
    /\ pc' = "exited"
    /\ exitCode' = <<0>>
    /\ errorLog' = Append(errorLog, failed)
    /\ UNCHANGED <<argv, srcTemplatesIndex, treeAtStart, tree, mainJs, mainCode,
                   transformsToBuild, useTemplateStructure, idx, fidx, clock, failed>>
    /\ UNCHANGED <<tvars, rvars, uvars, evars>>

BNext ==
    \/ SelectTransforms
    \/ PrepareOutputDir
    \/ PrepareOutputDirFails
    \/ Bundle
    \/ BundleFails
    \/ ReadBundle
    \/ ReadBundleFails
    \/ EmitRoleFile
    \/ EmitRoleFileFails
    \/ WriteReadme
    \/ WriteReadmeFails
    \/ CatchLogged

SpecBuild == BInit /\ [][BNext]_vars

(***************************************************************************)
(* Properties of OrderTransformer.transform.                               *)
(***************************************************************************)
IsObject(v) == v.k = "object"
Field(v, key) == IF IsObject(v) /\ key \in DOMAIN v.f THEN v.f[key] ELSE Undefined
Populated(x) == x.k = "string" /\ Len(x.v) > 0
OrderTypeIs1(v) == Field(v, "order_type") = Str(s_OrderType1)

\* Shape A: order_type 'OrderType1' and _id populated.  Shape B: order_id
\* populated, order_type not 'OrderType1', and the customer that the
\* OrderType2 interface requires.
ShapeA(v) == IsObject(v) /\ OrderTypeIs1(v) /\ Populated(Field(v, "_id"))
ShapeB(v) ==
    /\ IsObject(v) /\ ~OrderTypeIs1(v) /\ Populated(Field(v, "order_id"))
    /\ IsObject(Field(v, "customer"))

TransformReturned == called = "OrderTransformer.transform"

ExactlyOneId(v) ==
    IsObject(v) /\ (Populated(Field(v, "_id")) # Populated(Field(v, "order_id")))
PopulatedId(v) ==
    IF Populated(Field(v, "_id")) THEN Field(v, "_id") ELSE Field(v, "order_id")

\* C2 as stated: whenever exactly one of _id and order_id is populated, the
\* output's _id is that field, whatever order_type is.
C2_IdByPopulatedField ==
    (TransformReturned /\ ExactlyOneId(valueObject) /\ IsObject(result)) =>
        Field(result, "_id") = PopulatedId(valueObject)

\* C2 amended: the output's _id is chosen by order_type: the input's _id when
\* order_type is 'OrderType1', the input's order_id otherwise, whichever of
\* the two is populated.
C2_IdByOrderType ==
    (TransformReturned /\ IsObject(result)) =>
        Field(result, "_id") = IF OrderTypeIs1(valueObject)
                               THEN Field(valueObject, "_id")
                               ELSE Field(valueObject, "order_id")

\* Only _id is populated, order_type is not 'OrderType1', and the output's
\* _id is undefined.
C2_Witness ==
    /\ TransformReturned /\ IsObject(result)
    /\ Populated(Field(valueObject, "_id"))
    /\ ~Populated(Field(valueObject, "order_id"))
    /\ ~OrderTypeIs1(valueObject)
    /\ Field(result, "_id") = Undefined

\* C3: transform throws for no record object, whatever optional parts
\* (the customer in particular) are missing.
C3_NeverThrows ==
    (TransformReturned /\ IsObject(valueObject)) => result.k # "throw"

(***************************************************************************)
(* Properties of the filtering and flattening value transforms.            *)
(***************************************************************************)
ContainsTestAnyCase(x) == x.k = "string" /\ includes(toLowerCase(x.v), s_test)
ContainsTest(x) == x.k = "string" /\ includes(x.v, s_test)

\* The first populated of id, _id, order_id.
FirstId(v) ==
    IF Populated(Field(v, "id")) THEN Field(v, "id")
    ELSE IF Populated(Field(v, "_id")) THEN Field(v, "_id")
    ELSE Field(v, "order_id")

LacksCustomerName(v) ==
    ~IsObject(v) \/ ~IsObject(Field(v, "customer"))
      \/ ~Populated(Field(Field(v, "customer"), "name"))

Dropped ==
    /\ called \in {"map_filter.example", "map_filter.template",
                   "ValueTransform.transform.v1"} => result = Null
    /\ called \in {"shouldKeepRecord", "shouldKeepRecord.v1"} => result = Bool(FALSE)

FilterCalled ==
    called \in {"map_filter.example", "map_filter.template",
                "ValueTransform.transform.v1", "shouldKeepRecord", "shouldKeepRecord.v1"}

C5_NoCustomerNameDropped ==
    (/\ called \in {"map_filter.example", "map_filter.template"}
     /\ LacksCustomerName(valueObject)) => result = Null

ValidCall ==
    /\ topic.k = "string" /\ \E i \in 1..Len(topic.v) : topic.v[i] # " "
    /\ timestamp.k = "number"

\* C5 amended: the example-based map_filter function drops every input
\* without a non-empty customer name; the template-based
\* ValueTransform.transform does not look at the customer: with a valid
\* topic and timestamp it keeps every record whose first populated identifier
\* is a string without 'test', 'mock' or 'dummy', customer name or not.
C5_ExampleDropsTemplateKeeps ==
    /\ (called = "map_filter.example" /\ LacksCustomerName(valueObject)) => result = Null
    /\ (/\ called = "map_filter.template"
        /\ ValidCall
        /\ IsObject(valueObject)
        /\ Populated(FirstId(valueObject))
        /\ ~includes(toLowerCase(FirstId(valueObject).v), s_test)
        /\ ~includes(toLowerCase(FirstId(valueObject).v), s_mock)
        /\ ~includes(toLowerCase(FirstId(valueObject).v), s_dummy)) => IsObject(result)

\* The example-based function has dropped a record whose customer has an
\* empty name and whose _id is no test id.
C5_Witness ==
    /\ called = "map_filter.example"
    /\ IsObject(Field(valueObject, "customer"))
    /\ Field(Field(valueObject, "customer"), "name") = Str(<< >>)
    /\ Populated(Field(valueObject, "_id"))
    /\ ~ContainsTest(Field(valueObject, "_id"))
    /\ result = Null

Flattened(r, v) ==
    LET c == Field(v, "customer")
    IN  /\ "customer" \notin DOMAIN r.f
        /\ Field(r, "customer_id") = Field(c, "_id")
        /\ Field(r, "customer_name") = Field(c, "name")
        /\ Field(r, "customer_organization_id") = Field(c, "organization_id")
        /\ Field(r, "customer_version") = Field(c, "version")

Succeeded == pc = "exited" /\ failed = "none"

TypeFlags == {a_map_filter, a_fan_out, a_enrich_async, a_un_nesting}

FlagsGiven == {argv[i] : i \in DOMAIN argv}

\* The selection S of a command line.
Selection ==
    IF Len(argv) = 0 \/ a_all \in FlagsGiven THEN TypeFlags
    ELSE FlagsGiven \cap TypeFlags

RoleFilesOf(flag) ==
    CASE flag = a_map_filter ->
            {<<"map-filter", "valueTransform.js">>, <<"map-filter", "keyTransform.js">>}
      [] flag = a_fan_out ->
            {<<"fan-out", "valueTransform.js">>, <<"fan-out", "topicTransform.js">>}
      [] flag = a_enrich_async -> {<<"enrich-async", "valueTransform.js">>}
      [] flag = a_un_nesting -> {<<"un-nesting", "valueTransform.js">>}

ExpectedRoleFiles == UNION {RoleFilesOf(flag) : flag \in Selection}

PlatformFunctionOf(fileName) ==
    CASE fileName = "valueTransform.js" -> "_streamkap_transform"
      [] fileName = "keyTransform.js" -> "_streamkap_transform_key"
      [] fileName = "topicTransform.js" -> "_streamkap_transform_topic"

PlatformFunctions ==
    {"_streamkap_transform", "_streamkap_transform_key", "_streamkap_transform_topic"}

\* The platform functions a role file declares.
PlatformDeclarations(file) ==
    {file.code[i] : i \in {j \in DOMAIN file.code :
        /\ file.code[j].sec = "function"
        /\ file.code[j].name \in PlatformFunctions}}

RoleFilesWritten == {p \in DOMAIN tree.files : tree.files[p].kind = "role"}

\* C8: every generated role file declares exactly the platform function of
\* its role, with the parameters (valueObject, keyObject, topic, timestamp)
\* in that order; the platform function is declared async in the
\* enrich_async value file and in no other file, in example-based and in
\* template-based generation.
C8_PlatformFunctionSignatures ==
    \A p \in RoleFilesWritten :
        /\ Cardinality(PlatformDeclarations(tree.files[p])) = 1
        /\ \A d \in PlatformDeclarations(tree.files[p]) :
            /\ d.name = PlatformFunctionOf(p[2])
            /\ d.params = <<"valueObject", "keyObject", "topic", "timestamp">>
            /\ d.async = (p = <<"enrich-async", "valueTransform.js">>)

\* A template-based run of all four types has succeeded: the enrich_async
\* value file declares its function async, the fan-out topic file does not.
C8_Witness ==
    /\ Succeeded
    /\ useTemplateStructure
    /\ <<"enrich-async", "valueTransform.js">> \in RoleFilesWritten
    /\ \E d \in PlatformDeclarations(tree.files[<<"enrich-async", "valueTransform.js">>]) :
          d.async
    /\ <<"fan-out", "topicTransform.js">> \in RoleFilesWritten
    /\ \E d \in PlatformDeclarations(tree.files[<<"fan-out", "topicTransform.js">>]) :
          ~d.async /\ d.name = "_streamkap_transform_topic"

\* C9: the process exits with code 0 exactly when the run succeeded, and
\* with a non-zero code on every failure, those after the bundler step
\* included.
C9_ExitCodeZeroIffSuccess ==
    pc = "exited" => ((exitCode = <<0>>) <=> (failed = "none"))

\* The files the README names as produced.
ReadmeNamedFiles ==
    LET folders == tree.files[README].folders
    IN  UNION {{<<folders[i].folder, folders[i].entries[j].file>> :
                    j \in DOMAIN folders[i].entries} : i \in DOMAIN folders}

\* C10: every file the generated README names is a file the run wrote, and
\* every role file the run wrote is named in the README.
C10_ReadmeNamesWrittenFiles ==
    Succeeded => ReadmeNamedFiles = RoleFilesWritten

TypeOfFolder(folder) ==
    CASE folder = "map-filter" -> t_map_filter
      [] folder = "fan-out" -> t_fan_out
      [] folder = "enrich-async" -> t_enrich_async
      [] folder = "un-nesting" -> t_un_nesting

UtilityNames ==
    <<"formatTimestamp", "generateProcessingId", "validateOrderStructure", "safeStringify">>

\* The file at path p begins with the header of its type and role, then
\* holds the bundle, then the four shared utilities.
HeaderBundleUtilities(p) ==
    LET code == tree.files[p].code
    IN  /\ Len(code) >= 7
        /\ code[1].sec = "header"
        /\ code[1].type = TypeOfFolder(p[1])
        /\ code[1].funcType \o ".js" = p[2]
        /\ code[1].generatedOn.k = "string"
        /\ code[2].sec = "bundle"
        /\ code[2].entryPoint \in {"src/templates/index.ts", "src/value_transform.ts"}
        /\ \A i \in 1..4 : code[2 + i].sec = "function" /\ code[2 + i].name = UtilityNames[i]

IsPlatformFunctionOf(section, p) ==
    section.sec = "function" /\ section.name = PlatformFunctionOf(p[2])

\* C11 as stated: every generated role file is laid out header, bundle,
\* shared utilities, role function, and the last function defined in it is
\* the platform function of its role, for every transform type and role.
C11_RoleFunctionLast ==
    \A p \in RoleFilesWritten :
        LET code == tree.files[p].code
        IN  /\ HeaderBundleUtilities(p)
            /\ Len(code) = 7
            /\ IsPlatformFunctionOf(code[7], p)

ExampleEnrichAsync(p) ==
    /\ p = <<"enrich-async", "valueTransform.js">>
    /\ tree.files[p].code[2].entryPoint = "src/value_transform.ts"

\* C11 amended: every generated role file is laid out header, bundle, shared
\* utilities, role code, and the role code is the platform function alone,
\* except in the example-based enrich_async value file, where the helper
\* simulateApiCall is defined after the platform function and is the last
\* function of the file.
C11_RoleCodeLast ==
    \A p \in RoleFilesWritten :
        LET code == tree.files[p].code
        IN  /\ HeaderBundleUtilities(p)
            /\ IsPlatformFunctionOf(code[7], p)
            /\ IF ExampleEnrichAsync(p)
               THEN /\ Len(code) = 8
                    /\ code[8].sec = "function"
                    /\ code[8].name = "simulateApiCall"
               ELSE Len(code) = 7

\* An example-based run has written the enrich_async value file, which ends
\* with simulateApiCall, and the map-filter key file, which ends with
\* _streamkap_transform_key.
C11_Witness ==
    /\ Succeeded
    /\ ~useTemplateStructure
    /\ <<"enrich-async", "valueTransform.js">> \in RoleFilesWritten
    /\ Len(tree.files[<<"enrich-async", "valueTransform.js">>].code) = 8
    /\ <<"map-filter", "keyTransform.js">> \in RoleFilesWritten
    /\ tree.files[<<"map-filter", "keyTransform.js">>].code[7].name = "_streamkap_transform_key"

(***************************************************************************)
(* Properties of the topic functions.                                      *)
(***************************************************************************)
TopicCalls ==
    {"topic.example", "topic.template", "getRoutingTopics.v1", "getRoutingTopics",
     "TopicTransform.transform", "TopicTransform.complexRoute",
     "TopicTransform.conditionalRoute"}

NonEmptyString(x) == x.k = "string" /\ Len(x.v) > 0

OneTopicOrSeveral(r) ==
    \/ NonEmptyString(r)
    \/ /\ r.k = "array"
       /\ Len(r.v) >= 2
       /\ \A i \in DOMAIN r.v : NonEmptyString(r.v[i])

\* C12: every topic-role function returns, for every input, a single
\* non-empty string or an array of at least two strings; never an empty or
\* one-element array, null or undefined, and the call always returns.
C12_OneTopicOrSeveral ==
    called \in TopicCalls => OneTopicOrSeveral(result)

(***************************************************************************)
(* JSONRecordHelper (src/JSONRecordHelper.ts).  A JSON text is the         *)
(* sequence of its tokens.                                                 *)
(***************************************************************************)
NaN == [k |-> "number", nan |-> TRUE]

Token(t) == [t |-> t]

\* Mutant: numbers are written in quotes.
tokenOf_numbersQuoted(x) ==
    CASE x.k = "null" -> Token("null")
      [] x.k = "boolean" -> Token(IF x.v THEN "true" ELSE "false")
      [] x.k = "number" -> [t |-> "string", v |-> Str(toStr(x))]
      [] x.k = "string" -> [t |-> "string", v |-> x]

\* The token of a primitive: NaN is written as null.
tokenOf(x) ==
    CASE x.k = "null" -> Token("null")
      [] x.k = "boolean" -> Token(IF x.v THEN "true" ELSE "false")
      [] x.k = "number" -> IF "nan" \in DOMAIN x THEN Token("null")
                           ELSE [t |-> "number", v |-> x]
      [] x.k = "string" -> [t |-> "string", v |-> x]

\* The order in which the modelled records list their members.
MemberOrder ==
    <<"key", "value", "keySchema", "valueSchema", "headers", "metadata", "offset", "partition",
      "timestamp", "timestampType", "_id", "customer_id", "test">>

\* The members JSON.stringify writes: those whose value is not undefined.
writtenKeys(x) ==
    LET written(key) == key \in DOMAIN x.f /\ x.f[key].k # "undefined"
    IN  SelectSeq(MemberOrder, written)

RECURSIVE tokensOf(_), membersOf(_, _)
tokensOf(x) ==
    IF x.k = "object"
    THEN <<Token("{")>> \o membersOf(x, writtenKeys(x)) \o <<Token("}")>>
    ELSE <<tokenOf(x)>>

membersOf(x, keys) ==
    IF keys = << >> THEN << >>
    ELSE <<[t |-> "key", v |-> Head(keys)], Token(":")>>
           \o tokensOf(x.f[Head(keys)])
           \o (IF Len(keys) > 1 THEN <<Token(",")>> ELSE << >>)
           \o membersOf(x, Tail(keys))

\* JSON.stringify(x): undefined for undefined, else the text.
JSON_stringify(x) ==
    IF x.k = "undefined" THEN Undefined ELSE [k |-> "text", v |-> tokensOf(x)]

SyntaxError == [ok |-> FALSE]
Parsed(v, next) == [ok |-> TRUE, v |-> v, next |-> next]

RECURSIVE parseValue(_, _), parseMember(_, _, _)
\* The value that starts at token i, and the position after it.
parseValue(ts, i) ==
    IF i > Len(ts) THEN SyntaxError
    ELSE CASE ts[i].t = "{" ->
                IF i + 1 <= Len(ts) /\ ts[i + 1].t = "}"
                THEN Parsed(Obj(<< >>), i + 2)
                ELSE parseMember(ts, i + 1, << >>)
           [] ts[i].t = "null" -> Parsed(Null, i + 1)
           [] ts[i].t = "true" -> Parsed(Bool(TRUE), i + 1)
           [] ts[i].t = "false" -> Parsed(Bool(FALSE), i + 1)
           [] ts[i].t = "number" -> Parsed(ts[i].v, i + 1)
           [] ts[i].t = "string" -> Parsed(ts[i].v, i + 1)
           [] OTHER -> SyntaxError

\* The members of an object from token i on, added to fields.
parseMember(ts, i, fields) ==
    IF i + 2 > Len(ts) \/ ts[i].t # "key" \/ ts[i + 1].t # ":"
    THEN SyntaxError
    ELSE LET member == parseValue(ts, i + 2)
         IN  IF ~member.ok \/ member.next > Len(ts) THEN SyntaxError
             ELSE LET added == Spread(fields, ts[i].v :> member.v)
                  IN  CASE ts[member.next].t = "," -> parseMember(ts, member.next + 1, added)
                        [] ts[member.next].t = "}" -> Parsed(Obj(added), member.next + 1)
                        [] OTHER -> SyntaxError

\* JSON.parse(text): the value, or a SyntaxError thrown.
JSON_parse(ts) ==
    LET parsed == parseValue(ts, 1)
    IN  IF parsed.ok /\ parsed.next = Len(ts) + 1 THEN parsed.v ELSE Thrown

\* JSONRecordHelper.validateRecordStructure: a boolean, or the TypeError of
\* record.metadata.offset for a null metadata.
validateRecordStructure(r) ==
    IF ~Truthy(r) \/ typeOf(r) # "object"
    THEN Bool(FALSE)
    ELSE IF HasKey(r, "metadata") /\ typeOf(r.f["metadata"]) = "object"
              /\ r.f["metadata"].k = "null"
         THEN Thrown
         ELSE LET hasValue == HasKey(r, "value")
                  hasMetadata ==
                      /\ HasKey(r, "metadata")
                      /\ typeOf(r.f["metadata"]) = "object"
                      /\ typeOf(Prop(r.f["metadata"], "offset")) = "number"
                      /\ typeOf(Prop(r.f["metadata"], "partition")) = "number"
                      /\ typeOf(Prop(r.f["metadata"], "timestamp")) = "number"
              IN  Bool(hasValue /\ hasMetadata)

isStreamkapRecord(value) == validateRecordStructure(value)

\* loadJSONRecord(jsonString): every exception is thrown again as an Error.
loadJSONRecord(ts) ==
    LET parsed == JSON_parse(ts)
    IN  IF parsed.k = "throw" THEN Thrown
        ELSE IF isStreamkapRecord(parsed) # Bool(TRUE) THEN Thrown
             ELSE parsed

MetadataInputs ==
    {Absent, Undefined, Null, Str(<<"m">>)}
      \cup { MkObj([offset |-> o, partition |-> pa, timestamp |-> t]) :
               o \in {Absent, Num(100), Str(<<"1">>), NaN},
               pa \in {Absent, Num(0)},
               t \in {Absent, Ts(<<1,6,9,3,5,2,6,4,0,0,0,0,0>>), Null} }

RecordInputs ==
    {Null, Undefined, Num(1), Str(<<"r">>)}
      \cup { MkObj([key |-> ke, value |-> va, metadata |-> me]) :
               ke \in {Absent, Str(<<"k">>)},
               va \in {Absent, Undefined, Null, MkObj([test |-> Str(<<"d">>)])},
               me \in MetadataInputs }

\* x + n for a number x; Date.now() readings stay readings of the clock,
\* and a string is extended by the digits of n.
plus(x, n) ==
    IF "datenow" \in DOMAIN x THEN [x EXCEPT !.datenow = @ + n]
    ELSE IF x.k = "null" THEN Num(n)
    ELSE IF x.k = "string" THEN Str(x.v \o Digits(n))
    ELSE Num(x.v + n)

\* JSONRecordHelper.createTestRecord(baseRecord), without overrides.
createTestRecord(baseRecord, now) ==
    LET defaultMetadata == [offset |-> Num(0), partition |-> Num(0),
                            timestamp |-> DateNow(now),
                            timestampType |-> Str(<<"C","r","e","a","t","e","T","i","m","e">>)]
        defaultRecord == [key |-> Null, value |-> Obj(<< >>), keySchema |-> Null,
                          valueSchema |-> Null, headers |-> Obj(<< >>),
                          metadata |-> Obj(defaultMetadata)]
        baseMetadata == IF Prop(baseRecord, "metadata").k = "object"
                        THEN baseRecord.f["metadata"].f ELSE << >>
    IN  Obj(Spread(Spread(defaultRecord, baseRecord.f),
                   [metadata |-> Obj(Spread(defaultMetadata, baseMetadata))]))

\* `${base}-${index}`
suffixed(base, index) == Str(toStr(base) \o <<"-">> \o Digits(index))

\* The record generateRecordSequence makes in the iteration with the given
\* index, in which Date.now() reads now.
sequenceRecord(template, index, now) ==
    LET freshTemplate == JSON_parse(tokensOf(template))
        made == createTestRecord(freshTemplate, now)
        metadata == made.f["metadata"].f
        stepped == [metadata EXCEPT !["offset"] = plus(@, index),
                                    !["timestamp"] = plus(@, index * 1000)]
        baseValueId == Prop(Prop(template, "value"), "_id")
        value == IF Truthy(baseValueId)
                 THEN Obj(Spread(made.f["value"].f, [_id |-> suffixed(baseValueId, index)]))
                 ELSE made.f["value"]
        baseKeys == Prop(template, "key")
        key == IF Truthy(baseKeys) /\ baseKeys.k = "object"
               THEN Obj([field \in DOMAIN baseKeys.f |->
                           IF typeOf(baseKeys.f[field]) = "string"
                           THEN suffixed(baseKeys.f[field], index)
                           ELSE made.f["key"].f[field]])
               ELSE made.f["key"]
    IN  Obj([made.f EXCEPT !["metadata"] = Obj(stepped), !["value"] = value, !["key"] = key])

\* JSONRecordHelper.generateRecordSequence(template, count); nowAt[i] is what
\* Date.now() reads in iteration i.
generateRecordSequence(template, count, nowAt) ==
    Arr([i \in 1..count |-> sequenceRecord(template, i - 1, nowAt[i])])

MaxCount == 3

\* Templates with and without an offset and a timestamp.
SequenceTemplates ==
    { MkObj([key |-> ke, value |-> va, metadata |-> me]) :
        ke \in {Absent, MkObj([customer_id |-> Str(<<"c">>)])},
        va \in {Absent, MkObj([_id |-> Str(<<"o">>)]), MkObj([test |-> Str(<<"d">>)])},
        me \in {Absent, MkObj([offset |-> Num(5)]), MkObj([timestamp |-> Num(7000)]),
                MkObj([offset |-> Num(5), timestamp |-> Num(7000)])} }

RInit ==
    /\ jsonRecord \in RecordInputs \cup SequenceTemplates
    /\ valid = NotCalled
    /\ json = NotCalled
    /\ loaded = NotCalled
    /\ sequenceCount = 0
    /\ sequence = NotCalled
    /\ TIdle
    /\ BIdle
    /\ UIdle
    /\ EIdle

ValidateRecordStructure ==
    /\ valid = NotCalled
    /\ valid' = validateRecordStructure(jsonRecord)
    /\ UNCHANGED <<jsonRecord, json, loaded, sequenceCount, sequence>>
    /\ UNCHANGED <<tvars, bvars, uvars, evars>>

Stringify ==
    /\ json = NotCalled
    /\ json' = JSON_stringify(jsonRecord)
    /\ UNCHANGED <<jsonRecord, valid, loaded, sequenceCount, sequence>>
    /\ UNCHANGED <<tvars, bvars, uvars, evars>>

LoadJSONRecord ==
    /\ json.k = "text"
    /\ loaded = NotCalled
    /\ loaded' = loadJSONRecord(json.v)
    /\ UNCHANGED <<jsonRecord, valid, json, sequenceCount, sequence>>
    /\ UNCHANGED <<tvars, bvars, uvars, evars>>

\* The clock does not run backwards from one iteration to the next.
GenerateRecordSequence ==
    /\ sequence = NotCalled
    /\ jsonRecord \in SequenceTemplates
    /\ \E count \in 0..MaxCount :
          \E nowAt \in [1..count -> Clock] :
              /\ \A i \in 1..(count - 1) : nowAt[i] <= nowAt[i + 1]
              /\ sequenceCount' = count
              /\ sequence' = generateRecordSequence(jsonRecord, count, nowAt)
    /\ UNCHANGED <<jsonRecord, valid, json, loaded>>
    /\ UNCHANGED <<tvars, bvars, uvars, evars>>

RNext ==
    \/ GenerateRecordSequence
    \/ ValidateRecordStructure
    \/ Stringify
    \/ LoadJSONRecord

SpecRecord == RInit /\ [][RNext]_vars

(***************************************************************************)
(* The selective test runner (test-selective.js).                          *)
(***************************************************************************)
\* Mutant: the build is always asked for.
parseTestArgs_alwaysBuild(args) ==
    LET all == Len(args) = 0 \/ \E i \in DOMAIN args : args[i] = a_all
    IN  [requestedTypes |->
            IF all THEN {}
            ELSE {replace(substring2(args[i]), "-", "_") :
                     i \in {j \in DOMAIN args : startsWithDashes(args[j])}},
         testAll |-> all,
         shouldBuild |-> TRUE]

parseTestArgs(args) ==
    LET all == Len(args) = 0 \/ \E i \in DOMAIN args : args[i] = a_all
    IN  [requestedTypes |->
            IF all THEN {}
            ELSE {replace(substring2(args[i]), "-", "_") :
                     i \in {j \in DOMAIN args : startsWithDashes(args[j])}},
         testAll |-> all,
         shouldBuild |-> all]

folderToType ==
    [f \in {"map-filter", "fan-out", "enrich-async", "un-nesting"} |->
        CASE f = "map-filter" -> t_map_filter
          [] f = "fan-out" -> t_fan_out
          [] f = "enrich-async" -> t_enrich_async
          [] f = "un-nesting" -> t_un_nesting]

\* folders.map(folder => folderToType[folder]).filter(Boolean)
getAvailableTransforms(dirs) ==
    {folderToType[f] : f \in dirs \cap DOMAIN folderToType}

\* The transforms directory at the start: absent, empty, left by an earlier
\* build, or with a folder that is no transform folder.
FolderStates ==
    {[exists |-> FALSE, dirs |-> {}]}
      \cup {[exists |-> TRUE, dirs |-> dirs] :
               dirs \in {{}, {"map-filter"}, {"map-filter", "un-nesting", "docs"},
                         DOMAIN folderToType}}

\* error.status of a failed subprocess: <<code>>, or << >> for the null of
\* a subprocess that a signal ended.
FailureStatuses == {<<1>>, <<2>>, << >>}

\* Mutant: every failure is reported as 1.
statusOr1_always1(status) == 1

\* error.status || 1
statusOr1(status) == IF status = << >> \/ status[1] = 0 THEN 1 ELSE status[1]

UInit ==
    /\ testArgs \in ArgLists
    /\ testAll = FALSE
    /\ shouldBuild = FALSE
    /\ testTypes = {}
    /\ transformsDir \in FolderStates
    /\ transformsToTest = {}
    /\ execLog = << >>
    /\ tpc = "start"
    /\ testExit = << >>
    /\ TIdle
    /\ BIdle
    /\ RIdle
    /\ EIdle

\* process.exit(code)
TestExit(code) ==
    /\ tpc' = "exited"
    /\ testExit' = <<code>>

ParseTestArgs ==
    /\ tpc = "start"
    /\ LET parsed == parseTestArgs(testArgs)
       IN  /\ testTypes' = parsed.requestedTypes
           /\ testAll' = parsed.testAll
           /\ shouldBuild' = parsed.shouldBuild
           /\ tpc' = IF parsed.shouldBuild THEN "build" ELSE "scan"
    /\ UNCHANGED <<testArgs, transformsDir, transformsToTest, execLog, testExit>>
    /\ UNCHANGED <<tvars, bvars, rvars, evars>>

\* execSync('node build-multiple.js --all') starts the build and blocks.
StartBuild ==
    /\ tpc = "build"
    /\ execLog' = Append(execLog, [cmd |-> "build", event |-> "start"])
    /\ tpc' = "building"
    /\ UNCHANGED <<testArgs, testAll, shouldBuild, testTypes, transformsDir, transformsToTest,
                   testExit>>
    /\ UNCHANGED <<tvars, bvars, rvars, evars>>

\* The build ends with status 0, having written the four transformsDir.
BuildSucceeds ==
    /\ tpc = "building"
    /\ execLog' = Append(execLog, [cmd |-> "build", event |-> "end", status |-> <<0>>])
    /\ transformsDir' = [exists |-> TRUE, dirs |-> DOMAIN folderToType]
    /\ tpc' = "scan"
    /\ UNCHANGED <<testArgs, testAll, shouldBuild, testTypes, transformsToTest, testExit>>
    /\ UNCHANGED <<tvars, bvars, rvars, evars>>

\* The build fails: execSync throws, main exits with error.status || 1.
BuildFails ==
    /\ tpc = "building"
    /\ \E status \in FailureStatuses :
          /\ execLog' = Append(execLog, [cmd |-> "build", event |-> "end", status |-> status])
          /\ TestExit(statusOr1(status))
    /\ UNCHANGED <<testArgs, testAll, shouldBuild, testTypes, transformsDir, transformsToTest>>
    /\ UNCHANGED <<tvars, bvars, rvars, evars>>

\* getAvailableTransforms and the selection of the transforms to test.
SelectTests ==
    /\ tpc = "scan"
    /\ IF ~transformsDir.exists
       THEN TestExit(1) /\ UNCHANGED transformsToTest
       ELSE LET availableTransforms == getAvailableTransforms(transformsDir.dirs)
                selected == IF testAll THEN availableTransforms
                            ELSE availableTransforms \cap testTypes
            IN  IF availableTransforms = {} \/ selected = {}
                THEN TestExit(1) /\ UNCHANGED transformsToTest
                ELSE /\ transformsToTest' = selected
                     /\ tpc' = "jest"
                     /\ UNCHANGED testExit
    /\ UNCHANGED <<testArgs, testAll, shouldBuild, testTypes, transformsDir, execLog>>
    /\ UNCHANGED <<tvars, bvars, rvars, evars>>

\* execSync(jestCommand) starts the tests and blocks; the pattern names the
\* transforms to test, or is empty for all tests.
StartJest ==
    /\ tpc = "jest"
    /\ execLog' = Append(execLog,
                         [cmd |-> "jest", event |-> "start",
                          testNamePattern |-> IF testAll THEN {} ELSE transformsToTest])
    /\ tpc' = "testing"
    /\ UNCHANGED <<testArgs, testAll, shouldBuild, testTypes, transformsDir, transformsToTest,
                   testExit>>
    /\ UNCHANGED <<tvars, bvars, rvars, evars>>

\* The tests pass: main returns and the process ends with code 0.
JestSucceeds ==
    /\ tpc = "testing"
    /\ execLog' = Append(execLog, [cmd |-> "jest", event |-> "end", status |-> <<0>>])
    /\ tpc' = "returned"
    /\ testExit' = <<0>>
    /\ UNCHANGED <<testArgs, testAll, shouldBuild, testTypes, transformsDir, transformsToTest>>
    /\ UNCHANGED <<tvars, bvars, rvars, evars>>

\* The tests fail: execSync throws, main exits with error.status || 1.
JestFails ==
    /\ tpc = "testing"
    /\ \E status \in FailureStatuses :
          /\ execLog' = Append(execLog, [cmd |-> "jest", event |-> "end", status |-> status])
          /\ TestExit(statusOr1(status))
    /\ UNCHANGED <<testArgs, testAll, shouldBuild, testTypes, transformsDir, transformsToTest>>
    /\ UNCHANGED <<tvars, bvars, rvars, evars>>

UNext ==
    \/ ParseTestArgs
    \/ StartBuild
    \/ BuildSucceeds
    \/ BuildFails
    \/ SelectTests
    \/ StartJest
    \/ JestSucceeds
    \/ JestFails

SpecTestRunner == UInit /\ [][UNext]_vars

(***************************************************************************)
(* C13: exceptions inside the template transforms.                         *)
(***************************************************************************)
\* The transform operations of the template classes: ValueTransform (both
\* versions, and through the template platform functions that delegate to
\* transform and transformFlatten), KeyTransform (both versions),
\* TopicTransform, ValueSchemaTransform and KeySchemaTransform.
TemplateTransformCalls ==
    {"ValueTransform.transform.v1", "map_filter.template", "un_nesting.template",
     "ValueTransform.transformAsync", "KeyTransform.transform.v1", "KeyTransform.transform",
     "TopicTransform.transform", "ValueSchemaTransform.transform",
     "KeySchemaTransform.transform"}

HasMessage(x) ==
    /\ x.k = "object"
    /\ "error_message" \in DOMAIN x.f
    /\ x.f["error_message"].k = "string"

\* x is an object one of whose fields is the original input.
EmbedsInput(x) ==
    /\ x.k = "object"
    /\ \E key \in DOMAIN x.f : x.f[key] \in {valueObject, keyObject}

IsErrorKey(x) ==
    /\ x.k = "string" /\ "v" \in DOMAIN x
    /\ Len(x.v) >= 6
    /\ SubSeq(x.v, 1, 6) = <<"e", "r", "r", "o", "r", "-">>

GeneratedFields == {"processing_id", "processed_at", "processed_time"}

\* C14: two outputs of OrderTransformer.transform for the same input have
\* the same fields and agree on every field except processing_id,
\* processed_at and processed_time.
C14_SameOutputButGenerated ==
    (called = "OrderTransformer.transform.twice" /\ result.k = "array") =>
        LET first == result.v[1]
            second == result.v[2]
        IN  /\ first.k = "object" /\ second.k = "object"
            /\ DOMAIN first.f = DOMAIN second.f
            /\ \A key \in DOMAIN first.f \ GeneratedFields : first.f[key] = second.f[key]

\* Two outputs for one input, made a millisecond apart, that differ in the
\* generated id and in processed_at.
C14_Witness ==
    /\ called = "OrderTransformer.transform.twice"
    /\ result.k = "array"
    /\ \A key \in {"processing_id", "processed_at"} : result.v[1].f[key] # result.v[2].f[key]
    /\ result.v[1].f["has_valid_customer"] = Bool(TRUE)

(***************************************************************************)
(* C15 and C20: JSONRecordHelper.                                          *)
(***************************************************************************)
IsNumber(x) == x.k = "number"

\* A non-null object with a value key and a metadata object whose offset,
\* partition and timestamp are numbers.
WellFormedRecord(r) ==
    /\ IsObject(r)
    /\ "value" \in DOMAIN r.f
    /\ "metadata" \in DOMAIN r.f
    /\ IsObject(r.f["metadata"])
    /\ \A key \in {"offset", "partition", "timestamp"} :
          key \in DOMAIN r.f["metadata"].f /\ IsNumber(r.f["metadata"].f[key])

RECURSIVE IsJSON(_)
IsJSON(x) ==
    CASE x.k = "undefined" -> FALSE
      [] x.k = "number" -> "nan" \notin DOMAIN x
      [] x.k = "object" -> \A key \in DOMAIN x.f : IsJSON(x.f[key])
      [] OTHER -> TRUE

C20_TrueIffWellFormed ==
    valid # NotCalled => valid = Bool(WellFormedRecord(jsonRecord))

(***************************************************************************)
(* C16 and C17: the selective test runner.                                 *)
(***************************************************************************)
NoArguments == Len(testArgs) = 0
AllGiven == \E i \in DOMAIN testArgs : testArgs[i] = a_all
Started(cmd) == \E i \in DOMAIN execLog : execLog[i].cmd = cmd /\ execLog[i].event = "start"
EndedWith(cmd, status) ==
    \E i \in DOMAIN execLog :
        execLog[i].cmd = cmd /\ execLog[i].event = "end" /\ execLog[i].status = status
UDone == testExit # << >>

\* C16: the build runs exactly when the runner is called without arguments
\* or with --all, and then the tests start only after the build has ended
\* with status 0 (a failed build ends the run, no test started); otherwise
\* no build is started and the tests run on the transforms directory as it
\* was found.
C16_BuildBeforeTestsIffAll ==
    /\ (tpc \notin {"start", "build"}) => (Started("build") <=> (NoArguments \/ AllGiven))
    /\ Started("build") => (NoArguments \/ AllGiven)
    /\ (Started("jest") /\ (NoArguments \/ AllGiven)) =>
          \E i, j \in DOMAIN execLog :
              /\ i < j
              /\ execLog[i] = [cmd |-> "build", event |-> "end", status |-> <<0>>]
              /\ execLog[j].cmd = "jest" /\ execLog[j].event = "start"
    /\ (\E i \in DOMAIN execLog :
            execLog[i].cmd = "build" /\ execLog[i].event = "end" /\ execLog[i].status # <<0>>)
          => (UDone /\ ~Started("jest"))
    /\ (Started("jest") /\ ~(NoArguments \/ AllGiven)) =>
          /\ \A i \in DOMAIN execLog : execLog[i].cmd # "build"
          /\ \A t \in transformsToTest :
                \E f \in transformsDir.dirs \cap DOMAIN folderToType : folderToType[f] = t

\* Tests started after a build that the --all flag asked for.
C16_Witness ==
    /\ AllGiven
    /\ Len(testArgs) = 2
    /\ Len(execLog) = 3
    /\ execLog[2] = [cmd |-> "build", event |-> "end", status |-> <<0>>]
    /\ execLog[3].cmd = "jest"

\* C17: when the build or the tests end with a non-zero exit code, the
\* runner exits with that code; when the tests end with code 0, the runner
\* exits with code 0.
C17_ExitCodeForwarded ==
    /\ \A i \in DOMAIN execLog :
          (execLog[i].event = "end" /\ Len(execLog[i].status) = 1 /\ execLog[i].status # <<0>>)
              => testExit = execLog[i].status
    /\ EndedWith("jest", <<0>>) => testExit = <<0>>

\* The tests ended with exit code 2 and the runner exited with 2.
C17_Witness ==
    /\ EndedWith("jest", <<2>>)
    /\ testExit = <<2>>

(***************************************************************************)
(* C18: the magnitude rule of normalizeTimestamp.                          *)
(***************************************************************************)
\* t below 10^10 times 1000, below 10^13 unchanged, below 10^16 divided by
\* 1000, else divided by 10^6, on the digits of t.
MagnitudeRule(digits) ==
    IF Len(digits) <= 10 THEN digits \o <<0, 0, 0>>
    ELSE IF Len(digits) <= 13 THEN digits
    ELSE IF Len(digits) <= 16 THEN SubSeq(digits, 1, Len(digits) - 3)
    ELSE SubSeq(digits, 1, Len(digits) - 6)

\* C18: CommonTransform.normalizeTimestamp and KeyTransform.normalizeTimestamp
\* both return, for a positive number, the value the magnitude rule gives.
C18_SameMagnitudeRule ==
    (/\ called \in {"CommonTransform.normalizeTimestamp", "KeyTransform.normalizeTimestamp"}
     /\ timestamp \in TimestampMagnitudes) =>
        /\ result.k = "number"
        /\ "big" \in DOMAIN timestamp =>
              "big" \in DOMAIN result /\ result.big = MagnitudeRule(timestamp.big)
        /\ "v" \in DOMAIN timestamp => result = Num(timestamp.v * 1000)

(***************************************************************************)
(* C19: the has_valid_customer flag.                                       *)
(***************************************************************************)
\* The input has a nested customer with a name that is a non-empty string.
HasNamedCustomer(v) ==
    /\ IsObject(Field(v, "customer"))
    /\ Populated(Field(Field(v, "customer"), "name"))

\* C19: in every output of OrderTransformer.transform, for both shapes,
\* has_valid_customer is true exactly when the input has a nested customer
\* whose name is present and not empty.
C19_ValidCustomerIffNamed ==
    (called = "OrderTransformer.transform" /\ result.k = "object") =>
        /\ "has_valid_customer" \in DOMAIN result.f
        /\ result.f["has_valid_customer"] = Bool(HasNamedCustomer(valueObject))

\* A record of the second shape with a named customer, flagged valid.
C19_Witness ==
    /\ called = "OrderTransformer.transform"
    /\ result.k = "object"
    /\ ~OrderTypeIs1(valueObject)
    /\ HasNamedCustomer(valueObject)
    /\ result.f["has_valid_customer"] = Bool(TRUE)

(***************************************************************************)
(* C21: generateRecordSequence.                                            *)
(***************************************************************************)
\* The number of a metadata field: milliseconds for a reading of the clock.
NumberIn(x) == IF "datenow" \in DOMAIN x THEN x.datenow ELSE x.v

TemplateOffset ==
    LET metadata == Field(jsonRecord, "metadata")
    IN  IF IsObject(metadata) /\ "offset" \in DOMAIN metadata.f THEN metadata.f["offset"].v
        ELSE 0

\* C21: the sequence has exactly count records, record i has the template's
\* offset (0 when absent) plus i, and each timestamp is exactly 1000 ms
\* after the one before.
C21_SequentialOffsetsAndTimestamps ==
    sequence # NotCalled =>
        /\ Len(sequence.v) = sequenceCount
        /\ \A i \in 1..Len(sequence.v) :
              NumberIn(sequence.v[i].f["metadata"].f["offset"]) = TemplateOffset + (i - 1)
        /\ \A i \in 1..(Len(sequence.v) - 1) :
              NumberIn(sequence.v[i + 1].f["metadata"].f["timestamp"])
                = NumberIn(sequence.v[i].f["metadata"].f["timestamp"]) + 1000

(***************************************************************************)
(* C22: asynchronous enrichment.                                           *)
(***************************************************************************)
\* The record has an id, _id or order_id that is a non-empty string or a
\* number other than 0.
HasValidId(v) ==
    \E key \in {"id", "_id", "order_id"} :
        LET x == Field(v, key)
        IN  Populated(x) \/ (x.k = "number" /\ ("v" \in DOMAIN x => x.v # 0))

\* Every field of the input that is not undefined is in x with its value,
\* apart from the fields named in except.
KeepsFields(x, v, except) ==
    /\ IsObject(x)
    /\ \A key \in DOMAIN v.f \ except :
          v.f[key].k # "undefined" => (key \in DOMAIN x.f /\ x.f[key] = v.f[key])

Defined(x, key) == IsObject(x) /\ key \in DOMAIN x.f /\ x.f[key].k # "undefined"

AsyncValue == Str(<<"a","s","y","n","c","_","v","a","l","u","e">>)

RECURSIVE HasInfix(_, _)
HasInfix(chars, word) ==
    /\ Len(chars) >= Len(word)
    /\ \/ SubSeq(chars, 1, Len(word)) = word
       \/ HasInfix(Tail(chars), word)

MarksTest(v) ==
    \E key \in {"id", "_id", "order_id"} :
        /\ Populated(Field(v, key))
        /\ \E word \in {<<"t","e","s","t">>, <<"m","o","c","k">>, <<"d","u","m","m","y">>} :
              HasInfix(Field(v, key).v, word)

UsableContext ==
    /\ topic.k = "string" /\ \E i \in DOMAIN topic.v : topic.v[i] # " "
    /\ timestamp.k = "number"

BundlerFailed == pc = "exited" /\ failed = "bundle"

\* C23: when the bundler fails, the failure is logged, the process ends
\* with a non-zero exit code, no role file and no README is written, and
\* the output directory is left existing and empty, whatever it held before.
C23_BundlerFailureLeavesEmptyDir ==
    BundlerFailed =>
        /\ errorLog = <<"Failed to build main bundle">>
        /\ exitCode # << >> /\ exitCode # <<0>>
        /\ tree.exists
        /\ DOMAIN tree.files = {}
        /\ mainCode = "unread"

\* The bundler failed in a run that found earlier output.
C23_Witness ==
    /\ BundlerFailed
    /\ treeAtStart.exists
    /\ DOMAIN treeAtStart.files # {}
    /\ exitCode = <<1>>

\* The flags the generator announces as available.
KnownFlags == {a_map_filter, a_fan_out, a_enrich_async, a_un_nesting, a_all}

\* There are arguments, and none of them is an available flag.
OnlyUnknownFlags ==
    /\ Len(argv) > 0
    /\ \A i \in DOMAIN argv : argv[i] \notin KnownFlags

\* C25: a run whose arguments name no known transform type ends with exit
\* code 1 without having removed, created or written anything: the output
\* directory is as it was at the start and the bundler has not run.
C25_UnknownFlagsTouchNothing ==
    OnlyUnknownFlags =>
        /\ pc \in {"start", "exited"}
        /\ pc = "exited" => exitCode = <<1>>
        /\ tree = treeAtStart
        /\ mainJs = "absent"
        /\ transformsToBuild = << >>

\* A run with an unknown flag only has ended, and earlier output is still
\* there.
C25_Witness ==
    /\ OnlyUnknownFlags
    /\ \E i \in DOMAIN argv : argv[i] = a_sql_join
    /\ pc = "exited"
    /\ exitCode = <<1>>
    /\ tree.exists
    /\ DOMAIN tree.files # {}

(***************************************************************************)
(* A call of CommonTransform.enrichRecord, with the timers and the         *)
(* promise of simulateApiCall.                                             *)
(***************************************************************************)
ApiTimeoutMs == 5000
ApiLatencyMs == 100

EnrichArgs == {Null, Undefined} \cup {v \in KeyedInputs : v.k = "object"}

Resolved(value) == [state |-> "resolved", value |-> value]
Rejected(message) == [state |-> "rejected", message |-> message]

\* resolve(...) or reject(...): only the first settles the promise.
settle(promise, outcome) == IF promise = Pending THEN outcome ELSE promise

\* Mutant: the timer stays armed.
clearTimeout_ignored(pending, id) == pending

\* clearTimeout(id)
clearTimeout(pending, id) == {tm \in pending : tm.id # id}

\* The timers the event loop runs next: those that are due first.
DueFirst == {tm \in timers : \A other \in timers : tm.due <= other.due}

EInit ==
    /\ enrichArg \in EnrichArgs
    /\ epc = "start"
    /\ apiCalls = 0
    /\ timers = {}
    /\ apiPromise = Pending
    /\ enrichPromise = Pending
    /\ settlements = 0
    /\ timeoutFired = FALSE
    /\ TIdle
    /\ BIdle
    /\ RIdle
    /\ UIdle

\* enrichRecord runs up to its await: without an id it throws and its own
\* catch block returns the fallback; with one it calls simulateApiCall,
\* which arms the two timers.
EnrichRecordCalled ==
    /\ epc = "start"
    /\ IF ~Truthy(idFieldOf(enrichArg))
       THEN /\ \E now \in Clock :
                  enrichPromise' =
                      settle(enrichPromise,
                             Resolved(enrichFallback(enrichArg,
                                        text.No_valid_ID_found_for_enrichment, now)))
            /\ settlements' = settlements + 1
            /\ epc' = "done"
            /\ UNCHANGED <<apiCalls, timers, apiPromise>>
       ELSE /\ apiCalls' = apiCalls + 1
            /\ timers' = {[id |-> "timeout", due |-> ApiTimeoutMs],
                          [id |-> "complete", due |-> ApiLatencyMs]}
            /\ epc' = "awaiting"
            /\ UNCHANGED <<apiPromise, enrichPromise, settlements>>
    /\ UNCHANGED <<enrichArg, timeoutFired>>
    /\ UNCHANGED <<tvars, bvars, rvars, uvars>>

\* The event loop runs the callback of a timer that is due first.
TimerFires ==
    /\ \E tm \in DueFirst :
          IF tm.id = "complete"
          THEN /\ timers' = clearTimeout(timers \ {tm}, "timeout")
               /\ \E apiFails \in BOOLEAN, score \in {0, 99}, now \in Clock :
                     apiPromise' =
                         settle(apiPromise,
                                IF apiFails
                                THEN Rejected(text.Simulated_API_failure)
                                ELSE Resolved(apiResponse(idFieldOf(enrichArg), score, now)))
               /\ UNCHANGED timeoutFired
          ELSE /\ timers' = timers \ {tm}
               /\ apiPromise' =
                      settle(apiPromise, Rejected(text.API_call_timeout_after_5_seconds))
               /\ timeoutFired' = TRUE
    /\ UNCHANGED <<enrichArg, epc, apiCalls, enrichPromise, settlements>>
    /\ UNCHANGED <<tvars, bvars, rvars, uvars>>

\* enrichRecord continues after its await, in the try block or in the catch
\* block, and returns.
EnrichRecordResumes ==
    /\ epc = "awaiting"
    /\ apiPromise # Pending
    /\ \E now \in Clock :
          enrichPromise' =
              settle(enrichPromise,
                     Resolved(IF apiPromise.state = "resolved"
                              THEN enrichedRecord(enrichArg, apiPromise.value, now)
                              ELSE enrichFallback(enrichArg, apiPromise.message, now)))
    /\ settlements' = settlements + 1
    /\ epc' = "done"
    /\ UNCHANGED <<enrichArg, apiCalls, timers, apiPromise, timeoutFired>>
    /\ UNCHANGED <<tvars, bvars, rvars, uvars>>

ENext ==
    \/ EnrichRecordCalled
    \/ TimerFires
    \/ EnrichRecordResumes

SpecEnrich == EInit /\ [][ENext]_vars

\* The event loop runs every due timer and every continuation.
SpecEnrichFair == SpecEnrich /\ WF_vars(ENext)

\* x has every own field of the argument with its value.
KeepsArgFields(x) ==
    /\ IsObject(x)
    /\ \A key \in DOMAIN ownFields(enrichArg) :
          key \in DOMAIN x.f /\ x.f[key] = enrichArg.f[key]

EnrichSettledRight ==
    /\ apiCalls <= 1
    /\ settlements <= 1
    /\ ~timeoutFired
    /\ enrichPromise.state # "rejected"
    /\ epc = "done" =>
          /\ settlements = 1
          /\ timers = {}
          /\ enrichPromise.state = "resolved"
          /\ KeepsArgFields(enrichPromise.value)
          /\ IF apiPromise.state = "resolved"
             THEN /\ Field(enrichPromise.value, "enrichment") = apiPromise.value
                  /\ ~HasKey(enrichPromise.value, "enrichment_error")
             ELSE /\ Field(enrichPromise.value, "enrichment_error") = Bool(TRUE)
                  /\ ~HasKey(enrichPromise.value, "enrichment")

\* C24: a call of enrichRecord starts the simulated API call at most once,
\* its promise is settled exactly once and by resolving, with the
\* enrichment data on success and with a fallback that keeps the original
\* fields on failure, and the timeout timer never fires: the completion
\* timer cancels it.  Every call ends.
C24_SettlesOnceByResolving ==
    /\ []EnrichSettledRight
    /\ <>(epc = "done")

\* A call ended with the fallback after a simulated failure of its one API
\* call, the timeout cancelled.
C24_Witness ==
    /\ epc = "done"
    /\ apiCalls = 1
    /\ apiPromise.state = "rejected"
    /\ timers = {}
    /\ ~timeoutFired
    /\ Field(enrichPromise.value, "enrichment_error") = Bool(TRUE)
    /\ Field(enrichArg, "id") # Undefined

(***************************************************************************)
(* C26: the generated functions and their argument.                        *)
(***************************************************************************)
\* C26: no call of a generated _streamkap_transform function changes the
\* record passed to it or an object reachable from it: after the call the
\* caller's record is what it was before.
C26_InputNeverModified == [][valueObject' = valueObject]_vars

(***************************************************************************)
(* C27: the keys KeyTransform.transform returns.                           *)
(***************************************************************************)
KeyTransformCalls == {"KeyTransform.transform.v1", "KeyTransform.transform"}

\* validateKey accepts x.  The fallback key, fallback-<digits>-<letters and
\* digits>, is accepted whatever the clock and the random number are.
KeyAccepted(x) ==
    /\ x.k = "string"
    /\ "v" \in DOMAIN x => validateKey(x)

\* C27: for every value, key, topic and timestamp, the string returned by
\* KeyTransform.transform is accepted by validateKey: non-empty, at most 255
\* characters, without < > : " / \ | ? * and without control characters.
C27_TransformedKeyValid ==
    called \in KeyTransformCalls => KeyAccepted(result)

(***************************************************************************)
(* C28: normalizing a normalized timestamp.                                *)
(***************************************************************************)
\* C28: CommonTransform.normalizeTimestamp returns a normalized value
\* unchanged, so source_timestamp and normalized_timestamp of a record
\* returned by ValueTransform.transform are equal, and transformWithContext
\* derives its date prefix from the millisecond value a direct call of
\* transform uses.
C28_NormalizeIdempotent ==
    /\ called = "CommonTransform.normalizeTimestamp.twice" =>
          result.v[2] = result.v[1]
    /\ (called = "ValueTransform.transform" /\ IsObject(result)) =>
          Field(result, "normalized_timestamp") = Field(result, "source_timestamp")
    /\ called = "KeyTransform.transformWithContext.dateSource" =>
          result.v[1] = result.v[2]

(***************************************************************************)
(* C29: the partition hint of a key.                                       *)
(***************************************************************************)
\* C29: every key object KeySchemaTransform.transform returns with a
\* partition_hint has an integer partition_hint from 0 to 31, whatever the
\* kind of the key, and simpleHash never returns a negative number.
C29_PartitionHintInRange ==
    /\ (called = "KeySchemaTransform.transform" /\ HasKey(result, "partition_hint")) =>
          LET hint == result.f["partition_hint"]
          IN  /\ hint.k = "number"
              /\ "v" \in DOMAIN hint
              /\ hint.v \in 0..31
    /\ called = "KeySchemaTransform.simpleHash" =>
          /\ result.int32.hi \in 0..32768
          /\ result.int32.lo \in 0..65535
          /\ result.int32.hi = 32768 => result.int32.lo = 0

(***************************************************************************)
(* C30: the keys normalizeSchema writes.                                   *)
(***************************************************************************)
NoUpperCase(key) ==
    \A i \in 1..Len(KeySpelling[key]) : ~IsUpperCase(KeySpelling[key][i])

\* C30: normalizeSchema keeps every key without an upper-case letter, with
\* its value, never maps two keys of the input to one key of the result,
\* and returns its own result unchanged.
C30_OnlyCamelCaseRenamed ==
    called = "ValueSchemaTransform.normalizeSchema" =>
        LET once == result.v[1]
            twice == result.v[2]
        IN  /\ \A key \in DOMAIN keyObject.f :
                  NoUpperCase(key) =>
                      key \in DOMAIN once.f /\ once.f[key] = keyObject.f[key]
            /\ Cardinality(DOMAIN once.f) = Cardinality(DOMAIN keyObject.f)
            /\ twice = once

====
